# TLA+ specifications of OSRM

This directory holds TLA+ models of OSRM, from the map to the answer: extraction of a map,
the edge-expanded graph, the contraction hierarchy, the searches on it, the spatial index, the
heap of all searches, the server and its connections, the reading of PBF files by several
threads, and the exchange of routing data through shared memory. TLC checks small
instances of all of them. TLAPS proves, for all values of the constants, the exactness of the
contraction hierarchy and of the searches and tables on it, the connection of the legs of a route,
the shared-memory protocol, the reading of PBF files, the refinement of the priority queue by the heap,
and the parsing and writing of a connection (section 4).

Paths below are relative to the root of the repository.

## 1. Inventory of the system

| Component | State it keeps | Operations | Talks to | What is hard | What makes it correct |
|---|---|---|---|---|---|
| Shared-memory exchange (`datastore.cpp`, `Server/DataStructures/SharedDataFacade.h`, `SharedBarriers.h`, `DataStructures/SharedMemoryFactory.h`, `Library/OSRM_impl.cpp`) | segments behind keys, the triple in `CURRENT_REGIONS`, named mutexes, facades of every server, r-trees of every thread | load and swap (datastore), `CheckAndReloadFacade`, `RunQuery`, `unlock_all_mutexes` | processes, through System V memory and named semaphores | interleaving of processes, kills, exceptions, stale copies | a query sees one complete, current data set; sections exclude each other; everybody gets on |
| Extraction (`Extractor/`) | lists of nodes, edges, ways' ends and restrictions, sorted | `ProcessNode`, `ProcessWay`, `ProcessRestriction`, `PrepareData` | parsers, files | boundary cases of the merge joins, ways open in one direction | every restriction that can be resolved, every known node and every drivable segment is written |
| PBF reading (`Extractor/PBFParser.cpp`, `DataStructures/ConcurrentQueue.h`) | bounded queue, blocks | `ReadHeader`, `ReadData`, `ParseData`, `Parse` | extractor callbacks | full and empty queue, end marker, ownership | every block delivered once, in order, freed once; it ends |
| Graph factory (`Contractor/EdgeBasedGraphFactory.cpp`, `GeometryCompressor.cpp`, `DataStructures/RestrictionMap.cpp`, `NodeBasedGraph.h`, `DynamicGraph.h`, `Util/GraphLoader.h`) | node-based graph, restrictions, geometry buckets | loading, compression, numbering, turns | files, r-tree, contractor | parallel edges, restrictions across removed nodes, reuse of buckets | turns allowed exactly where they should be, weights and geometry kept |
| Components (`Algorithms/StronglyConnectedComponents.h`, `Tools/components.cpp`) | stacks, indices and low links | `Run` | files | recursion unrolled by hand, left-over frames | strong components of the file |
| Contraction (`Contractor/Contractor.h`) | the graph, remaining nodes, edges set aside | rounds, flush, `GetEdges` | takes the edge list of the graph factory, gives the hierarchy to the query | rounds contract many nodes in parallel; renumbering in the middle | distances are preserved, shortcuts unpack, it ends |
| Written graph (`Contractor/Prepare.cpp`, `DataStructures/StaticGraph.h`) | node and edge array | write, adjacent edges, `FindEdge` | contractor, query | unused nodes, sentinels | the edges of the hierarchy, each at its source |
| Searches (`RoutingAlgorithms/`, `DataStructures/SearchEngine.h`, `Plugins/`) | heaps, upper bound, meeting node, chains of legs, buckets, candidates | `RoutingStep`, legs, many-to-many, alternatives, unpacking | heap, graph | negative offsets, stalling, early stop, two directions at every via location | shortest length, and a path of this length |
| Spatial index (`DataStructures/StaticRTree.h`) | tree nodes, leaves, queue of candidates | construction, three queries | plugins | pruning with ties, renumbering of nodes | the nearest segment is found |
| Heap (`DataStructures/BinaryHeap.h`, `XORFastHashStorage.h`) | array, entries, index storage | `Insert`, `DeleteMin`, `DecreaseKey`, `Clear`, ... | all searches | back pointers, stale indices, time stamp at its limit | implements a priority queue |
| Connection (`Server/Connection.cpp`, `RequestParser.cpp`, `RequestHandler.cpp`, `Http/Reply.cpp`) | parser state, reply, pending write | `handle_read`, `handle_write`, `handle_request` | io_service threads, `RunQuery` | requests in pieces, lifetime of buffers | parsed as sent, right length, always answered |
| Server and shutdown (`Server/Server.h`, `routed.cpp`) | acceptor, threads | accept, `Stop` | connections | failed accept, late shutdown | accepted requests are answered |
| URI grammar, descriptors, geometry algorithms, in-process facade, tools, profiles | - | - | - | formatting, floating point | - |

## 2. Modules

| Module | Models |
|---|---|
| `SharedData` | the exchange of data between datastore and routed processes |
| `SharedDataProofs` | theorems about `SharedData` that need no operating rule |
| `SharedDataUpdateProofs` | theorems about `SharedData` under the operating rules |
| `ExtractorCallbacks`, `PBFGroups` | what the parsers of both formats read and what the callbacks keep of it |
| `Extraction` | osrm-extract: reading, the merge joins, the written files |
| `DynamicGraph` | the adjacency array with room to grow, as functions on graphs |
| `NodeBasedGraph` | from the written file to the node-based graph |
| `RestrictionMap`, `GeometryCompressor` | turn restrictions by edge; nodes removed from edges |
| `EdgeBasedGraphFactory` | osrm-prepare up to the edge-expanded graph |
| `StronglyConnectedComponents` | osrm-components: Tarjan's search on the graph of a file |
| `MapPreparation` | `Extraction`, then `EdgeBasedGraphFactory` or `StronglyConnectedComponents` |
| `Contractor` | construction of the contraction hierarchy |
| `ContractorProofs` | theorems about distances, the finished hierarchy, its via nodes and the rounds |
| `StaticGraph` | the hierarchy as it is written and searched |
| `CHQuery` | one bidirectional search and the unpacking of its path |
| `ShortestPathRouting`, `ManyToManyRouting`, `AlternativeRouting` | the three algorithms built on it |
| `SearchEngine` | the choice among them, as the plugins make it |
| `RoutePlanning` | `Contractor`, `StaticGraph` and `SearchEngine` composed |
| `RoutePlanningProofs` | theorems about searches, tables and the legs of routes |
| `HilbertCode`, `StaticRTree` | the packed r-tree, its queries, the plugins `locate` and `nearest` |
| `PriorityQueue` | abstract specification of the heap |
| `XORFastHashStorage`, `BinaryHeap` | the heap over three storages, shown to implement `PriorityQueue` |
| `BinaryHeapProofs` | the refinement, proved |
| `HttpConnection`, `Server` | one connection; the server around it |
| `HttpConnectionProofs` | theorems about the parser's pieces and the lengths of replies |
| `ConcurrentQueue`, `PBFParser` | the bounded queue; read and parse thread over it |
| `PBFParserProofs` | theorems about delivery and ownership of blocks |
| `DataInduction` | induction and loops, as the proofs use them |
| `MC*` | instances for TLC |

Definitions whose comment begins with "Mutant:" are deliberately wrong variants of the
definition that follows them; replacing the definition by the mutant must violate the property
named in `PROJECT.json`. They are not part of any specification.

### SharedData

Actors are `Stores` (runs of `osrm-datastore`; each run is one actor and leaves one data set,
which carries its name), `Servers` (processes of `osrm-routed`, in whose name the main
thread runs the constructor) and `Threads` (workers; `Home` gives their process).

| Variable | Code |
|---|---|
| `shm` | which segment a key (`LAYOUT_1`, ...) leads to; removing a key leaves mappings intact |
| `data_timestamp` | the struct in `CURRENT_REGIONS`; three fields, written one by one |
| `pending_update_mutex`, `query_mutex` | values of the named semaphores; boost's `named_mutex` may be unlocked by anyone, so they are counters and can exceed 1 after `unlock_all_mutexes` |
| `number_of_queries`, `register` | one counter for each process: a plain member of `SharedBarriers`. Its `++` and `--` are a read into a register of the thread and a write, two steps that others may come between |
| `CURRENT`, `m_layout_memory`, `m_large_memory`, `m_query_graph` | members of the facade, shared by all workers of a server |
| `m_static_rtree` | thread-specific pair of timestamp and r-tree |
| `seen` | observation: which data sets a query has read |
| `overtaken` | observation: threads that were handling a request when another worker of their server began to reload. A thread leaves the set with the first r-tree that it loads while nobody reloads |
| `leaked`, `lost` | observations: queries ended by exceptions; semaphore values that died with a process |

Steps of datastore: `StartStore`, `ReleasePending`, `ChooseSegment`, `GetLayoutRegion`,
`GetDataRegion`, `FillData`, `LockForSwap`, `SwapLayout`, `SwapData`, `SwapTimestamp`,
`DeletePreviousData`, `DeletePreviousLayout`, `ReleaseAfterSwap`. Steps of a query:
`BeginQuery`, `LockQuery`, `EnterQuery`, `ReadCount`, `IncrementCount`, the reload (`CheckTriple` ...
`LoadFacade`), `ReleaseQuery`, `SearchRTree`, `SearchGraph`, `LockAfterQuery`, `ReadCount`, `LeaveQuery`.
Exceptions are
`ReloadThrows` (inside `CheckAndReloadFacade`), `HandleThrows` (inside the plugin) and their
handlers `AbortQuery` / `AbortStart`; `CrashStore` and `CrashServer` kill processes at any
step.

The code leaves some conditions to the operator. The constant `Discipline` states which of
them a run assumes: *SerialStores* (one datastore at a time), *CaughtUp* (a datastore is started
only after every running server has noticed the last update), *QuietStart* (no server starts
while a datastore publishes). `SharedDataUpdates` assumes all three, `SharedDataIdleServer` all but
*CaughtUp*.
`SharedDataFaults`, `SharedDataLive` and the theorems of `SharedDataProofs` assume none of them;
those of `SharedDataUpdateProofs` assume all three.

### Extraction and MapPreparation

The elements of a map are records that already carry what the profile makes of them. `Parse` hands
one element (XML) or one group (PBF, with differences of ids and coordinates) to the
callbacks. Each merge join of `PrepareData` is an action that advances the cursors `left` and `right`
by one step: `FixRestrictionStarts`, `FixRestrictionEnds`, `WriteUsedNode`,
`SetStartCoordinate`, `WriteEdge`; the sorts between them are actions as well. They are not stable in the code;
in the model elements with equal keys keep their order or are reversed (`Sorted`). A group of simple nodes, which
the PBF parser rejects with an exception, ends the extraction (`Rejected`). A place is its latitude
and a degree is ten metres long, so that weights are computed in whole numbers by the formula of the
code. `RunPrepare` hands the written files, cut to the counts in their heads, to the factory.

### EdgeBasedGraphFactory

| Action | Code |
|---|---|
| `CheckArguments`, `LoadGraph` | `Prepare::Process` up to the factory: files, profile, `readBinaryOSRMGraphFromStream`, `NodeBasedDynamicGraphFromImportEdges`, `RestrictionMap` |
| `CompressGeometry` | one node of `CompressGeometry`: the test for a removable node, new targets and weights, both fix-ups of restrictions on both sides, both buckets |
| `RenumberEdges` | numbers of the edges; one for a street in both directions each |
| `GenerateEdgeExpandedNodes` | components by breadth-first search, segments for the r-tree |
| `GenerateEdgeExpandedEdges` | permitted turns and their weights |
| `SerializeGeometry` | the geometry file |

`DynamicGraph` keeps the array of the code: every node has a range of slots, and deleting an edge moves
the last one of the range into its slot. The factory's sort is stable in the model; inputs that differ in the order of
equal edges stand for what an unstable sort may do. Turn penalties are an arbitrary function
of three coordinates.

### StronglyConnectedComponents

One action per turn of the loop over the stack of frames: `VisitNode` (before the recursion), `LeaveNode`
(after it, where components are closed) and `SkipVisited` (a frame left over from another
parent); `StartAtNode` is the loop over nodes, `WriteNetwork` the output. Both tools only read
the written files, so a behaviour of `MapPreparation` runs one of them; `Analysed` bounds the
files on which this one is run to those that differ in their streets.

### Contractor, StaticGraph, SearchEngine, RoutePlanning

A graph is a set of edge records, each kept at its source. One `ContractRound` is one
iteration of the loop of `Run()`: choice of the independent nodes, witness searches against the graph
of the round's start, deletion of incoming edges, insertion of the shortcuts. `Flush` renumbers,
`GetEdges` collects the result. Node priorities are a heuristic, so each round takes any
total order; near ties (`std::abs(a - b) < epsilon` with `a # b`) may hold back further nodes.
`Dijkstra` is bounded by `MaxNodes`, the 2000 of the code. Its loop, the insertion of shortcuts and the
shrinking list of nodes are recursive functions of one turn (`DijkstraTurn`, `InsertTurn`, `Without`).
`INT_MAX` means "no connection" as in the code; sums do not wrap, so the model stands for graphs
whose paths weigh less than that. `Shortest` gives the reference distances: the weights of shortest
walks, found in the order of the weights.

`WriteGraph` builds the node and edge arrays with their sentinels and reads them back the way
`BeginEdges` and `EndEdges` do; `query_graph` holds what is read for each node. A location is a
phantom node with a node and an offset for each direction of its street (`Phantoms`; the two
directions are different nodes, or the street has one). `ShortestPathRouting`
runs the two searches of every leg with the two heaps in turn, as the `while` loops do, and joins the legs
to the two chains; `journey` holds the local variables of the loop over legs.
`ManyToManyRouting` is one step per settled node, first backwards from all targets and then forwards.
`AlternativeRouting` searches beyond the bound, ranks the candidates, runs the half searches
and the T-test; shares are in percent. The loops of `StaticGraph`, `CHQuery` and
`AlternativeRouting` are folds or recursive functions of one turn (`Loop`), so that they can be reasoned
about. `RoutePlanning` compares all answers with the weights of shortest walks of the input.

### StaticRTree

`PackLeaves`, `PackLevel`, `FinishTree` (reverse and renumber) and `OpenTree` build and load the tree.
`traversal_queue` is a set and a step takes any candidate of least distance, since the order of ties is
up to the heap. The plane, squared distances and segments parallel to the axes keep all values
whole; `lat2y` is any monotonic projection, and coordinates are on both sides of the equator and of the zero
meridian. On such segments both cases of the slope in `ComputePerpendicularDistance` give `Projection`,
and the ratio along the line gives the foot point or an end of the segment (`NearestPoint`). `IsNaN` is the case in
which the ratio is 0 / 0 and is replaced by 0 or 1: a segment on longitude 0, where both b and d of the code
are 0. In general it is each line through the point (0, 0), of which that meridian is the one line parallel to an
axis that meets it exactly; on the equator `lat2y(0)` is about -6e-15 and no zero. The
overload without a nearest location exchanges start and end if only the end is on the equator, which
turns the replaced ratio round. The code's comparisons within 1e-6 are exact here. `Reply` is what the plugins make of the result; an invalid location is refused.

### PriorityQueue and BinaryHeap

`PriorityQueue` is a map from inserted nodes to weight and removal mark; `DeleteMin` may return
any minimal node. `BinaryHeap` is the array of the code with its back pointers, over storage
that `Clear()` empties (map), leaves as it is (array) or makes outdated by a time stamp (hash table, where
a look-up already takes a cell). `Upheap` and `Downheap` are loops: a recursive function gives the state
after each turn (`UpheapTurn`, `DownheapTurn`), and a turn that finds its place changes nothing. The
refinement maps entries to what `WasInserted`, `GetKey` and
`WasRemoved` answer.

### HttpConnection and Server

A request is a sequence of symbols; every place in which the parser tells characters apart
has its own symbol, and header names and words are one symbol each. `HandleRead` is the whole
of `handle_read`: it takes the next 1 .. `BufferSize` symbols, runs the parser, and if the request
is complete runs the handler with any outcome, compresses, sets the sizes and starts the write.
What the socket does not take at once is written later by `WriteMore`; memory that is destroyed
by then may read as anything. `Server` adds the acceptor (an accept may fail, after which none
follows), the signal, `Stop`, and the shutdown that either sees the threads end or aborts.

### ConcurrentQueue and PBFParser

A wait is two steps: joining the waiters and, after a notification or a spurious wake-up,
testing again. Files are sequences of blocks, some unreadable; groups carry their kinds
of entities. What a group means to the callbacks is in `PBFGroups`.

## 3. Runs

Twelve runs: ten pass, two show a disagreement between the code and what it says of itself.

| Run | Checks | Bounds, and why they are enough |
|---|---|---|
| `SharedDataUpdates` | `CurrentAnswer`, `MixedOnlyIfOvertaken`, `PublishedDataAvailable`, `ReleasesPreviousOnly` under all three rules | three updates bring the banks round to the first one again; two servers see them in different orders; one of them has two workers (the program starts eight threads), of which each may reload under the other. Two queries for each worker: an r-tree loaded in the middle of a reload is used again, or replaced after the next update. Datastore runs and the two workers of one server are interchangeable |
| `SharedDataFaults` | `TypeOK`, `QueryExclusion`, `QueryCount`, `TripleNotTorn` without any rule | two workers of one server, whose `++` and `--` may meet after the one use of `unlock_all_mutexes`; two concurrent datastores, one kill of each kind. Deadlock is not checked since a killed holder leaves a lock behind |
| `SharedDataLive` | `QueriesEnd`, `UpdatesEnd` without any rule, under fairness | one exception, two workers, two datastores: each may wait for each of the others |
| `SharedDataIdleServer` | violation of `ReleasesPreviousOnly` without *CaughtUp* | three updates: the first is loaded, two are missed |
| `MapPreparation` | `RestrictionsKept`, `FileComplete` of extraction; `CheapestEdgeFound`, `GeometryExact`, `TurnsExact`, `SegmentsIndexed` of the factory; `ComponentsExact` of osrm-components | maps with three ways at a junction, of eleven kinds, four lists of relations, nodes missing or beyond the limit, in both formats and orders; further files with chains, rings, parallel streets, lights, barriers and restrictions, in several orders of nodes and edges; components of two and of three nodes beside larger ones, the limit being four. A chain of three streets is compressed twice, which moves restrictions and merges buckets. `FreeListChunk` = 1 makes buckets scarce |
| `Contractor` | `DistancesPreserved`, `HierarchyExact`, `ViaResolves`, `RoundsAreIndependent` | all graphs on a cycle of four nodes with a diagonal, plus loops, zero weights and parallel edges; all orders; flush after the first node(s) (the code's 65 % would leave one node); near ties. `INT_MAX` = 20 lies above every path of these graphs |
| `RoutePlanning` | `ShortestFound`, `PathMatchesLength`, `RouteConnects`, `ViaRouteShortest`, `AlternativeSound`, `TableExact`, `QueryEnds`, `HierarchyIsBuilt` | witness searches that settle one node, so that nearly all shortcuts are superfluous; flush after the second node; streets of one and two directions with offsets, up to three legs with and without U-turns, tables of three locations, graphs with an alternative that is ten percent longer. `INT_MAX` = 120 lies above the length of every route, previous distances included |
| `RouteOppositeStreets` | violation of `RouteShortest` | three legs over two via locations digitised in opposite directions |
| `StaticRTree` | `TreeCovers`, `NearestSegment`, `NearestEndPoint`, `NearestInOrder` | leaves and inner nodes of two entries and up to six segments: three levels with partly filled nodes; locations on, between, beside and outside of the segments; segments of tiny components; coordinates of both signs, the same streets with one of them on the zero meridian |
| `BinaryHeap` | `ImplementsQueue` | four nodes give three levels and both children; three weights give ties; a hash table of two cells in which everything collides, and a time stamp that reaches its limit after two clears |
| `HttpConnection` | `ParsedAsSent`, `LengthMatchesBody`, `RequestsAreAnswered` | eight valid requests, one broken at each kind of place, two truncated; every split into reads; one error of a socket or the acceptor; a signal at any time. Deadlock is not checked since a truncated request leaves the server waiting |
| `PBFParser` | `BlocksDelivered`, `BlocksOwned`, `ParseReturns` | capacity two, files of up to five blocks: both waits happen, and the end marker meets a full queue |

### Conditions inside properties

Some properties name a case in which the code does not do what they say of all others:

* `ShortestFound`, `TableExact`: the target lies before the source on the same one-way street, where
  the negative sum is discarded; `RouteShortest` asks the same of all legs (`Onwards`). Lengths from
  `Limit` on count as none: the source's offset is subtracted from a length, so that such a length may
  belong to a walk that weighs `INT_MAX`.
* `RouteConnects`: at the end of a leg that began with a turn the route may turn as well (see below).
* `ViaRouteShortest` is `RouteShortest` up to one via location.
* `QueryExclusion`, `QueryCount`, `TripleNotTorn`: states after `unlock_all_mutexes` was used (`unlocks` is not 0).
  With two threads in the section an increment may be lost, and the counter be wrong from then on.
* `MixedOnlyIfOvertaken`: queries that another worker's reload overtook, and those that use an r-tree loaded
  during one. `OneDataSetPerQuery` asks it of all queries and does not hold.
* `NearestSegment`, `NearestInOrder`: maps with a street along the zero meridian. `NearestOnEveryMeridian` asks it of all.
* `NearestSegment`, `NearestEndPoint`: queries that ignore tiny components on inputs that have some
  (`SeesAll`); for end points also boxes without area.
* `TurnsExact`: restrictions against turning back into the same street, and files with restrictions that
  name unknown nodes. `SegmentsIndexed` speaks of offsets away from traffic lights, and of the flag for tiny components
  except for components that are one node smaller than the limit; `TinyComponentsFlagged` asks it of all.

### Statements that do not hold

Seven definitions state what the code means to do and does not; they are in no configuration. Added
as an `INVARIANT`, each is violated within seconds:

* `OneDataSetPerQuery` of `SharedData` (in `SharedDataUpdates.cfg`): a worker that reloads exchanges the data under
  another worker's running query, which then reads two data sets, or memory that is no longer mapped; an r-tree
  loaded at that moment carries the new timestamp and stays in use until the next update
  (`SharedDataFacade.h:235`).
* `SwapWaitsForQueries` of `SharedData` (in `SharedDataFaults.cfg`): datastore's wait, which is to prevent this, is
  never taken, because the counter it tests lives in its own process.
* `CompressedIfRequested` of `HttpConnection` (in `HttpConnection.cfg`): the requested compression is
  forgotten between two reads.
* `ResultIsWritten` of `HttpConnection` (in `HttpConnection.cfg`): the compressed reply is written from a
  local vector.
* `TurnsWhereAllowed` of `RoutePlanning` (in `RoutePlanning.cfg`): where a leg began with a turn, the shorter
  of the two legs replaces the other chain, but both of their ends remain starts of the next leg
  (`ShortestPathRouting.h:290`). The route may then leave the next location on the other node than the one
  on which it arrives, although no turn is allowed there. The attempt to prove that routes turn only
  where they may brought this to light.
* `NearestOnEveryMeridian` of `StaticRTree` (in `StaticRTree.cfg`): a location is put on the source end of
  the nearest street if this street runs along longitude 0 (`Coordinate.cpp:281`).
* `TinyComponentsFlagged` of `EdgeBasedGraphFactory` (in `MapPreparation.cfg`): a component with one node less
  than the limit is not flagged as tiny, since its first node is counted twice (`BFSComponentExplorer.h:86, 97`).

The two violation runs show that

* after two updates the bank whose "previous" segments a server removes is the current one again
  (`SharedDataIdleServer`);
* after an exchange of legs the previous distances are given to the wrong directions
  (`RouteOppositeStreets`).

### Fairness

Liveness assumes weak fairness of processes and threads that have begun something (the operating
system's scheduler): a started datastore, a worker with a request, the steps of osrm-prepare
(contraction and writing, one sequential program), the steps of a search, the two parser
threads and the return of `Parse`, the handlers of a connection, and `main` after a signal. Nothing
is assumed of clients or the operator, of exceptions, signals or spurious wake-ups. Weak fairness is
enough although the named mutexes are contended, because each thread takes a bounded number of
requests (`MaxQueries`) and each datastore runs once; that a named mutex prefers others for ever
in an unbounded run is outside of what `SharedDataLive` says.

### Further observations

Seen while modelling, and outside of the properties that hold. What contradicts a comment or a test
is listed as a finding in `PROJECT.json`.

Shared memory and server

* A datastore killed after it created `LAYOUT_2` and before it swapped makes the next run believe
  that bank 2 is in use; that run then loads over the published bank 1 (`datastore.cpp:199`).
* A server that starts during a swap may copy a torn triple (`SharedDataFacade.h:232`).
* With a JSONP callback a replaced reply gets the closing parenthesis without the opening one
  (`RequestHandler.cpp:104-113`).
* After a failed accept the server takes no further client (`Server.h:102`).
* `remote_endpoint()` of a client that is gone throws in an io_service thread (`Connection.cpp:80`).

Extraction

* A truncated PBF file is accepted: `Parse` returns true after the last readable block
  (`PBFParser.cpp:168`). `ReadHeader` accepts a header whose blob cannot be loaded. A group of simple
  nodes throws in the parse thread and ends the process.
* `ProcessWay` turns round a way that is closed forwards but keeps its forward speed; a forward speed
  of -1 drops a way that is open backwards.
* The XML parser takes any relation for a restriction, the PBF parser asks for `type=restriction`.
* Exceptions in `PrepareData` are printed, and osrm-extract still returns 0.

Preparation

* A restriction with unknown nodes stays in the list with untranslated ids (`GraphLoader.h`).
* The penalty of a traffic light at a removed node is part of the edge's weight but not of its segments.
* `IsEqualTo` ignores roundabouts.
* Priorities below 1 that differ by less than `epsilon` can stop the contraction from making
  progress (`Contractor.h:912`).

Queries

* A negative sum at a meeting node is discarded, which the previous distance of a later leg can hide:
  a leg may then go backwards on a one-way street (the scenario marked `@bug` in
  `features/testbot/via.feature`).
* With U-turns allowed, the reported length covers the legs since the last U-turn only.
* The sum of two half searches overflows if one of them found nothing (`AlternativePathRouting.h:443`);
  the candidate is refused right after.
* The bound from boxes that hold tiny components only prunes boxes with others.
* Of several nearest streets, all are given the name of the first (`NearestPlugin.h`).
* Once a time stamp has reached its maximum, the refilled hash table has no free cell and the next look-up
  does not return (`XORFastHashStorage.h:75`).

## 4. Theorems

Each theorem holds for every value of the constants that satisfies the assumptions named in the modules.
Theorems that state a property of section 3 are listed with it in `PROJECT.json`.

### SharedData without rules (`SharedDataProofs`)

For any finite sets of servers, threads and datastore runs, any `Discipline` and any bounds on faults
(assumption `ConstantsAssumption`):

* `TypeCorrect`: `Spec => []TypeOK`
* `SectionsExclude`: `Spec => []QueryExclusion`
* `CountIsExact`: `Spec => []QueryCount`, about reads and writes of the counter as separate steps: as long as
  `unlock_all_mutexes` is not used, none of them is lost
* `NeverTorn`: `Spec => []TripleNotTorn`

None of them is inductive. The inductive invariant is

    IInv == /\ TypeOK /\ SemaphoreBalance /\ QueryCount /\ RegisterFresh
            /\ DownIsIdle /\ TripleCopied

* `SemaphoreBalance`: the value of `query_mutex`, the number of actors inside its sections
  and the values that died with killed processes add up to one plus the uses of
  `unlock_all_mutexes`. `QueryExclusion` follows: without the tool, at most one actor
  is inside. The sum needs `lost`, since a kill takes an actor out of a section without a post.
* `RegisterFresh`: a thread between the read and the write of `++` or `--` holds the current value. Other threads
  cannot change it in between, since they are not in the section: this, too, rests on `SemaphoreBalance`.
* `DownIsIdle`: threads of a server that is not up are idle, so that starting
  and killing a server leaves the counts right.
* `TripleCopied`: during the copy, the fields copied so far agree with `CURRENT_REGIONS`. It is
  preserved by the steps of datastore because they hold the query mutex, and by another worker's
  steps for the same reason: it rests on `SemaphoreBalance`.

The proof has one step per action; lemmas on the cardinality of the sets of holders and of running
queries say how one changed control state changes them.

### SharedData under the operating rules (`SharedDataUpdateProofs`)

`OperatingRules` is what the run `SharedDataUpdates` assumes: all three rules, no killed datastore, no use of
`unlock_all_mutexes`, no exception; servers may be killed. For any number of servers, workers and updates:

* `PublishedAlways`: `Spec => []PublishedDataAvailable`
* `AnswersAreCurrent`: `Spec => []CurrentAnswer`
* `OnlyPreviousReleased`: `Spec => []ReleasesPreviousOnly`
* `QueriesReadOneDataSet`: `Spec => []MixedOnlyIfOvertaken`

The invariant is `UInv == IInv /\ Exchange`. `Exchange` follows the protocol: only one datastore works
(`OneStore`); the bank in use is the published one and its segments are complete at each step of
datastore (`RegionsOK`); a running server's triple is the published one or the one before it
(`TriplesOK`, the point at which *CaughtUp* is needed: two updates later the bank of the old triple is in use
again); a reload has mapped what it copied (`MappedSoFar`); and a server that is not reloading shows one
complete data set (`FacadeOK`). Mutual exclusion comes from `IInv`. The fourth theorem adds `ReadsOK`:
a reload has marked every thread of its server that handles a request (`Marked`); and for a thread that is not marked,
the r-tree is of its server's data or carries an older timestamp (`TreeFor`), and what it has read so far is of one
data set (`SeenFor`). That every query reads one data set does not hold (`OneDataSetPerQuery`).

### PBFParser (`PBFParserProofs`)

For every capacity, any number of parse threads and any files:

* `ParserTypes`: `Spec => []TypeOK`
* `EachBlockDelivered`: `Spec => []BlocksDelivered`
* `EachBlockOwned`: `Spec => []BlocksOwned`

The invariant says where each block is: with `c` blocks taken from the queue, the queue holds the blocks
`c + 1, c + 2, ...` in order, followed by at most one end marker (`QueueHolds`); the blocks up to `c` are
delivered or in the hands of one thread (`Taken`), in order if there is one parse thread (`InOrder`).

### BinaryHeap (`BinaryHeapProofs`)

* `HeapImplementsQueue`: `Spec => ImplementsQueue`, the refinement of `PriorityQueue`, for any set of
  nodes and weights, any table size and hash function, and the three kinds of storage.

The invariant is `Inv == HeapInv /\ IndexInv`: array and entries point at each other, no element is
smaller than its parent, removed entries have no place in the array; and the index of each inserted node, as
the storage finds it, is its entry. The second half is what makes the answers of `WasInserted` and
`GetKey` those of the queue, and needs that a probe for a key stops at the first cell that holds the key or is
outdated. `UpheapWorks` and `DownheapWorks` show what the loops compute; each is an invariant of the
turns together with a measure that falls (`LoopEnds` in `DataInduction`). One lemma per action shows the step
of the queue (`InsertRefines`, `DeleteMinRefines`, ...).

### HttpConnection (`HttpConnectionProofs`)

* `LengthsMatch`: `Spec => []LengthMatchesBody`
* `PiecesMakeNoDifference`: `Spec => []ParsedAsSent`, for requests that mean what they say
  (`RequestsMeanWhatTheySay`: parsed in one piece, each request gives the result it is listed with; the
  requests of the run satisfy it). The theorem is about the pieces: however a request is
  cut into reads, the parser ends in the state in which it ends when it reads the request at once.

### Contractor (`ContractorProofs`)

For every number of nodes, every set of input graphs, every bound on witness searches, flush percentage and
number of near ties (`ContractorAssumption`: inputs join nodes of the graph by integer weights):

* `ContractorTypes`: `Spec => []TypeOK`
* `DistancesKept`: `Spec => []DistancesPreserved`
* `HierarchyIsExact`: `Spec => []HierarchyExact`
* `RoundsIndependent`: `Spec => RoundsAreIndependent`
* `ShortcutsResolve`: `Spec => []ViaResolves`

The inductive invariant `Contraction` says, until the hierarchy is built (`Contracted`):

* `Ready`: edges of a remaining node lead to remaining nodes, and each is known at its other end
  by an edge that is no heavier. `InsertEdge` may replace one of the two and not the other, so they need not be
  equal.
* `SameWalks`: between remaining nodes there is a walk within a weight if and only if the input has one.
* `Sound`: no edge, also of a contracted node, is lighter than the input allows.
* `Complete`: each walk of the input is found by two searches along the edges of contracted nodes, one
  from each end, that meet within its weight, or that reach remaining nodes with a walk between them.
* `Numbered`: after the flush, names of different nodes are different.

`Exact` is what is left of it once `GetEdges` has put the edges together, and `ExactDistance` turns it
into the sum over meeting nodes.

The argument has these steps.

1. *Walks.* `Walk(A, u, v, w)` is read off the reference distances. `WalkStep`, `WalkJoin`, `WalkCovered`,
   `WalkSimulated` and `WalkReversed` are the only facts about them that the rest uses.
2. *Witnesses.* Each key below `INT_MAX` in the heap of a witness search is the weight of a walk that
   avoids the contracted node, after every turn (`TurnKeepsHeap`); so it does not matter where the search
   stops. What is not in need of a shortcut therefore has a walk (`NeededOrWitness`, `Shortcuts`).
3. *Rounds.* Nodes that rank below everything within two hops are independent (`RankedIndependent`). Insertion in any
   order leaves for each shortcut an edge that is at least as good (`InsertAll`). A round keeps all walks
   (`RoundKeepsWalks`, by strong induction on the weight: a walk through a contracted node becomes a shortcut, or
   has a witness; the witness may itself lead through other nodes of the round, but its last arc comes from a node
   that remains, since the nodes of a round have no common neighbour, and the rest of it weighs less) and
   adds none (`RoundAddsNoWalk`).
4. *Completeness.* A walk that starts or ends in a node of the round leaves it by an edge that the hierarchy
   keeps (`LeaveSource`, `LeaveTarget`, `RoundComplete`).
5. *Flush and end.* Renumbering carries walks along (`MovedSameWalks`, `FlushContracted`), and taking the names back
   gives the finished hierarchy (`FinishedExact`).

`ShortcutsResolve` needs more than `Contraction`: the invariant `Resolving` adds `Vias`, stated of all edges in
original names (`Finished`, what `GetEdges` would return now). Edges between two nodes are kept at
one end only, once one of the two is contracted; the via node of a shortcut is contracted; the way through it is
as long as the shortcut, and if it has a shorter way then there is a parallel edge shorter than the
shortcut. The last part cannot be left out: a shortcut that is not the shortest need not be as long as the
shortest way through its via node. Its proof has three parts.

1. *A new shortcut.* A lighter in-edge gives its search a smaller bound (`SearchBound`), so that the search settles no
   more and finds no smaller keys (`WitnessWider`, by a comparison of the two searches turn by turn). Hence, if a
   shortcut is needed, a lighter way through the node needs one as well (`LighterNeeded`, `ShortcutVia`), and
   the round inserts it or has something better.
2. *Later rounds* (`Advance`). The edges of a contracted node are frozen (`FrozenWays`), and edges between remaining
   nodes are only ever replaced by better ones (`LeadsStill`), so an old shortcut still resolves.
3. *The flush* changes no original name (`MovedAlike`): it marks the via nodes of the edges it moves, which
   is what the mutant `FlushUnmarked` leaves out.

`HalvesAtVia` and `ShortestHalves` carry this over to what `UnpackPath` looks up.

### RoutePlanning (`RoutePlanningProofs`)

For every graph, every hierarchy the contractor can build of it, every set of requests
(`ContractorAssumption`, and `RequestsAssumption`: locations lie on nodes of the graph, with offsets that are
not negative), and every order in which a heap returns entries of equal weight:

* `SearchesFindShortest`: `PlanSpec => []ShortestFound`
* `TableIsExact`: `PlanSpec => []TableExact`
* `RoutesConnect`: `PlanSpec => []RouteConnects`

The inductive invariant of the first is `Planning`: the hierarchy is the one that `ContractorProofs` is about
(`Hierarchy`); a graph that is loaded is the written hierarchy (`Loaded`); and the loops are where their
variables say (`Engaged`, with `Searching` for the heaps of a search). The other two add `Tabling` and `Routed`.

1. *The file.* The node and the edge array give each node its edges and no others (`NodeArrayIs`, on `Cut`:
   the edges before the first edge of a node are those of smaller nodes).
2. *Sound heaps.* The key of every entry is the key of a start plus the weight of a walk along arcs of
   this direction (`SoundHeap`, `FromStart`), in every turn. So no meeting is too short.
3. *A meeting node.* By `Exact` the best way has a node at which an upward and a downward walk meet within its
   length (`Meeting`). `Far` says of each search that nothing leads to this node by less than its share.
4. *Neither search gives up.* While the bound is larger than the best way, one of the two searches is
   still on its way to the meeting node (`Pending`): one of its open entries leads there within the share. The
   turn that settles this entry passes it on to a neighbour (`Settles`); an entry is not stalled on the way, since
   the stalling arc would give a walk to the meeting node that is shorter than the best one; and the search does
   not stop, since the entry's key plus the least key of the other side lies below the bound. `Both` is the
   statement of the two directions together: if both have reached the meeting node, the later one has recorded it.
   The search beyond the bound (`AlternativeRoutingStep`) stops later and finds the same length.
5. *Tables.* A backward search leaves a bucket at every node that it settles; for each location there is a
   bucket at the meeting node when the search is over (`Collecting`, `Known`). A forward search enters the
   best way when it settles the meeting node (`Coming`, `Entering`, `Filled`).
6. *Legs.* The parents of a heap lead to a start (`Rooted`: the parent's key is smaller, so that the climb of
   `PackedPath` ends; it is a loop, shown to end by `LoopEnds`). `Rooting` and `IsFound` say that the path of each
   of the two searches of a leg begins at one of its sources and ends at its target. `IsChain` is the claim for
   one chain of legs, `Arrives` says that the nodes from which the next leg is searched are the ends of the two
   chains. `JoinedIs` and `ReplacedAre` show this of every case in which the loop exchanges or replaces
   chains.

### Induction

The library's induction theorems take an operator as a parameter, which the installed provers cannot
instantiate. `DataInduction` proves induction for sets instead of predicates from the library's theorem on
well-founded relations; a proof then names the set of the numbers for which its claim holds. Recursive
functions are unfolded by showing that a function with their equation exists.

## 5. Only model-checked

* Liveness (`QueriesEnd`, `UpdatesEnd`, `QueryEnds`, `HierarchyIsBuilt`, `RequestsAreAnswered`,
  `ParseReturns`): TLAPS does not reason about fairness here.
* `PathMatchesLength` and `AlternativeSound` of `RoutePlanning`: they speak of the sum over an unpacked path,
  which needs an induction over nested shortcuts beyond `ViaResolves` and `Rooted`.
  `ViaRouteShortest`: it compares the chains of legs with all ways through the locations.
* The properties of `StaticRTree` and `MapPreparation`. `StaticRTree`, `EdgeBasedGraphFactory` and
  `MapPreparation` declare recursive operators, about which TLAPS cannot reason.

## 6. Not modelled

Listed with reasons in `PROJECT.json`. In short: Lua profiles (data of the map), floating-point geometry (rounding, the formula of
the projection), turn instructions and descriptors (rendering), the grammar of URIs, the in-process
facade (loaded once), stand-alone tools, option parsing, the layout arithmetic of shared
memory, `LRUCache`, `HashTable`, `DeallocatingVector` and `RangeTable`.

## 7. Plan

1. *Done*: all modules of section 2, and the theorems of section 4.
2. `PathMatchesLength`, from `ViaResolves` and `Rooted`; then `ViaRouteShortest`.
3. The incremental search of `StaticRTree`, and Tarjan's search in `StronglyConnectedComponents`.
