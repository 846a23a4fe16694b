-------------------------- MODULE SharedDataProofs --------------------------
(***************************************************************************)
(* Proofs about SharedData, for every number of servers, workers and       *)
(* datastore runs and every bound on faults.                               *)
(*                                                                         *)
(* The inductive invariant IInv adds to the types: the conservation of the *)
(* query semaphore (its value, the actors inside its sections and the      *)
(* values lost with killed processes add up to one plus the values that    *)
(* unlock_all_mutexes posted), the meaning of number_of_queries, that the  *)
(* value of it which a worker is about to change is still the current one, *)
(* that a server which is not up has no busy worker, and what a worker has *)
(* copied so far of the triple in CURRENT_REGIONS.                         *)
(***************************************************************************)
EXTENDS SharedData, FiniteSetTheorems, TLAPS

\* The value of the semaphore "query", its holders and its losses balance.
SemaphoreBalance ==
    query_mutex + Cardinality(QueryHolders) + lost = 1 + unlocks

\* Workers of a server that is not (or not yet) up are idle.
DownIsIdle ==
    \A t \in Threads : pc[Home[t]] # "up" => pc[t] = "idle"

\* A worker between the read and the write of ++ or -- has not missed a change.
RegisterFresh ==
    unlocks = 0 =>
      \A t \in Threads : pc[t] \in {"q_increment", "q_decrement"} =>
        register[t] = number_of_queries[Home[t]]

\* What a worker has copied of the triple still agrees with CURRENT_REGIONS.
TripleCopied ==
    unlocks = 0 =>
      \A t \in Threads :
        /\ pc[t] \in {"rl_data", "rl_timestamp"} =>
             CURRENT[Home[t]].layout = data_timestamp.layout
        /\ pc[t] = "rl_timestamp" => CURRENT[Home[t]].data = data_timestamp.data
        /\ pc[t] \in {"rl_getLayout", "rl_getData", "rl_load", "q_release"} =>
             CURRENT[Home[t]] = data_timestamp

IInv == /\ TypeOK /\ SemaphoreBalance /\ QueryCount /\ RegisterFresh
        /\ DownIsIdle /\ TripleCopied

-----------------------------------------------------------------------------
\* Membership in QueryHolders and Running changes with the pc of the actor that
\* takes the step, by one.
LEMMA HoldersFinite ==
    ASSUME TypeOK
    PROVE  /\ IsFiniteSet(QueryHolders)
           /\ Cardinality(QueryHolders) \in Nat
           /\ \A s \in Servers : /\ IsFiniteSet(Running(s))
                                 /\ Cardinality(Running(s)) \in Nat
<1>1. IsFiniteSet(Threads \cup Stores)
  BY FS_Union, ConstantsAssumption
<1>2. QueryHolders \subseteq Threads \cup Stores
  BY DEF QueryHolders
<1>3. \A s \in Servers : Running(s) \subseteq Threads
  BY DEF Running
<1>4. IsFiniteSet(QueryHolders) /\ \A s \in Servers : IsFiniteSet(Running(s))
  BY <1>1, <1>2, <1>3, FS_Subset, ConstantsAssumption
<1> QED
  BY <1>4, FS_CardinalityType

\* The effect of one actor's change of pc on the set of holders.
LEMMA HoldersStep ==
    ASSUME TypeOK, NEW a \in Actors, NEW to,
           pc' = [pc EXCEPT ![a] = to]
    PROVE  Cardinality(QueryHolders') =
             IF HoldsQuery(a, pc[a]) = HoldsQuery(a, to) THEN Cardinality(QueryHolders)
             ELSE IF HoldsQuery(a, to) THEN Cardinality(QueryHolders) + 1
             ELSE Cardinality(QueryHolders) - 1
<1>1. IsFiniteSet(QueryHolders)
  BY HoldersFinite
<1>2. \A b \in Threads \cup Stores : HoldsQuery(b, pc[b]) <=> b \in QueryHolders
  BY DEF QueryHolders
<1>3. \A b \in Threads \cup Stores :
        b \in QueryHolders' <=> HoldsQuery(b, IF b = a THEN to ELSE pc[b])
  BY DEF QueryHolders, HoldsQuery, TypeOK, Actors
<1>4. QueryHolders' \subseteq Threads \cup Stores /\ QueryHolders \subseteq Threads \cup Stores
  BY DEF QueryHolders
<1>5. \A p : HoldsQuery(a, p) => a \in Threads \cup Stores
  BY DEF HoldsQuery
<1>6. \A p : HoldsQuery(a, p) \in BOOLEAN
  BY DEF HoldsQuery
<1>7. CASE HoldsQuery(a, pc[a]) = HoldsQuery(a, to)
  <2>1. QueryHolders' = QueryHolders
    BY <1>2, <1>3, <1>4, <1>7, <1>6
  <2> QED
    BY <2>1, <1>7
<1>8. CASE ~HoldsQuery(a, pc[a]) /\ HoldsQuery(a, to)
  <2>1. QueryHolders' = QueryHolders \cup {a} /\ a \notin QueryHolders
    BY <1>2, <1>3, <1>4, <1>5, <1>8
  <2> QED
    BY <2>1, <1>1, <1>8, <1>6, FS_AddElement
<1>9. CASE HoldsQuery(a, pc[a]) /\ ~HoldsQuery(a, to)
  <2>1. QueryHolders' = QueryHolders \ {a} /\ a \in QueryHolders
    BY <1>2, <1>3, <1>4, <1>5, <1>9
  <2> QED
    BY <2>1, <1>1, <1>9, <1>6, FS_RemoveElement
<1> QED
  BY <1>6, <1>7, <1>8, <1>9

\* The effect of one actor's change of pc on the queries counted for a server.
LEMMA RunningStep ==
    ASSUME TypeOK, NEW a \in Actors, NEW to, NEW s \in Servers,
           pc' = [pc EXCEPT ![a] = to]
    PROVE  Cardinality(Running(s)') =
             IF a \notin Threads \/ Home[a] # s THEN Cardinality(Running(s))
             ELSE IF (pc[a] \in CountedPC) = (to \in CountedPC)
                  THEN Cardinality(Running(s))
             ELSE IF to \in CountedPC THEN Cardinality(Running(s)) + 1
             ELSE Cardinality(Running(s)) - 1
<1>1. IsFiniteSet(Running(s))
  BY HoldersFinite
<1>2. \A b \in Threads : b \in Running(s) <=> Home[b] = s /\ pc[b] \in CountedPC
  BY DEF Running
<1>3. \A b \in Threads :
        b \in Running(s)' <=> Home[b] = s /\ (IF b = a THEN to ELSE pc[b]) \in CountedPC
  BY DEF Running, TypeOK, Actors
<1>4. Running(s)' \subseteq Threads /\ Running(s) \subseteq Threads
  BY DEF Running
<1>5. CASE a \notin Threads \/ Home[a] # s \/ (pc[a] \in CountedPC) = (to \in CountedPC)
  <2>1. Running(s)' = Running(s)
    BY <1>2, <1>3, <1>4, <1>5
  <2> QED
    BY <2>1, <1>5
<1>6. CASE a \in Threads /\ Home[a] = s /\ pc[a] \notin CountedPC /\ to \in CountedPC
  <2>1. Running(s)' = Running(s) \cup {a} /\ a \notin Running(s)
    BY <1>2, <1>3, <1>4, <1>6
  <2> QED
    BY <2>1, <1>1, <1>6, FS_AddElement
<1>7. CASE a \in Threads /\ Home[a] = s /\ pc[a] \in CountedPC /\ to \notin CountedPC
  <2>1. Running(s)' = Running(s) \ {a} /\ a \in Running(s)
    BY <1>2, <1>3, <1>4, <1>7
  <2> QED
    BY <2>1, <1>1, <1>7, FS_RemoveElement
<1> QED
  BY <1>5, <1>6, <1>7

-----------------------------------------------------------------------------
\* Assigning one field of a triple gives a triple.
LEMMA TripleFields ==
    ASSUME NEW r \in SharedDataTimestamp, NEW l \in Regions, NEW n \in Nat
    PROVE  /\ [r EXCEPT !.layout = l] \in SharedDataTimestamp
           /\ [r EXCEPT !.data = l] \in SharedDataTimestamp
           /\ [r EXCEPT !.timestamp = n] \in SharedDataTimestamp
BY DEF SharedDataTimestamp

\* A triple is completed by its last field.
LEMMA TripleComplete ==
    ASSUME NEW r \in SharedDataTimestamp, NEW q \in SharedDataTimestamp,
           r.layout = q.layout, r.data = q.data
    PROVE  [r EXCEPT !.timestamp = q.timestamp] = q
BY DEF SharedDataTimestamp

\* Every action of SharedData keeps the types of all variables.
LEMMA TypeStep == TypeOK /\ [Next]_vars => TypeOK'
<1> SUFFICES ASSUME TypeOK, [Next]_vars PROVE TypeOK'
  OBVIOUS
<1> USE ConstantsAssumption
<1> USE DEF TypeOK, Goto, Actors, Proc, Regions, Segments, Views,
            ServerPC, ThreadPC, StorePC, ReloadPC, ThreadQueryPC, StoreQueryPC,
            locks, facade, query, counts, faults
<1>1. ASSUME NEW d \in Stores, StartStore(d) PROVE TypeOK'
  BY <1>1 DEF StartStore
<1>2. ASSUME NEW d \in Stores, ReleasePending(d) PROVE TypeOK'
  BY <1>2 DEF ReleasePending
<1>3. ASSUME NEW d \in Stores, ChooseSegment(d) PROVE TypeOK'
  BY <1>3 DEF ChooseSegment, RegionExists
<1>4. ASSUME NEW d \in Stores, GetLayoutRegion(d) PROVE TypeOK'
  BY <1>4 DEF GetLayoutRegion, Created, layout_region
<1>5. ASSUME NEW d \in Stores, GetDataRegion(d) PROVE TypeOK'
  BY <1>5 DEF GetDataRegion, Created, data_region
<1>6. ASSUME NEW d \in Stores, FillData(d) PROVE TypeOK'
  BY <1>6 DEF FillData
<1>7. ASSUME NEW d \in Stores, LockForSwap(d) PROVE TypeOK'
  BY <1>7 DEF LockForSwap
<1>8. ASSUME NEW d \in Stores, SwapLayout(d) PROVE TypeOK'
  BY <1>8, TripleFields DEF SwapLayout, layout_region
<1>9. ASSUME NEW d \in Stores, SwapData(d) PROVE TypeOK'
  BY <1>9, TripleFields DEF SwapData, data_region
<1>10. ASSUME NEW d \in Stores, SwapTimestamp(d) PROVE TypeOK'
  <2>1. data_timestamp.timestamp + 1 \in Nat
    BY DEF SharedDataTimestamp
  <2> QED
    BY <1>10, <2>1, TripleFields DEF SwapTimestamp
<1>11. ASSUME NEW d \in Stores, DeletePreviousData(d) PROVE TypeOK'
  BY <1>11 DEF DeletePreviousData, Removed, previous_data_region
<1>12. ASSUME NEW d \in Stores, DeletePreviousLayout(d) PROVE TypeOK'
  BY <1>12 DEF DeletePreviousLayout, Removed, previous_layout_region
<1>13. ASSUME NEW d \in Stores, ReleaseAfterSwap(d) PROVE TypeOK'
  BY <1>13 DEF ReleaseAfterSwap
<1>14. ASSUME NEW d \in Stores, CrashStore(d) PROVE TypeOK'
  <2>1. IsFiniteSet(QueryHolders \cap {d})
    BY HoldersFinite, FS_Subset
  <2>2. Cardinality(QueryHolders \cap {d}) \in Nat
    BY <2>1, FS_CardinalityType
  <2> QED
    BY <1>14, <2>2 DEF CrashStore
<1>15. ASSUME NEW s \in Servers, StartServer(s) PROVE TypeOK'
  BY <1>15 DEF StartServer, NoTriple, SharedDataTimestamp
<1>16. ASSUME NEW s \in Servers, CrashServer(s) PROVE TypeOK'
  <2> DEFINE mine == {t \in Threads : Home[t] = s}
  <2>1. IsFiniteSet(QueryHolders \cap mine)
    BY HoldersFinite, FS_Subset
  <2>2. Cardinality(QueryHolders \cap mine) \in Nat
    BY <2>1, FS_CardinalityType
  <2> QED
    BY <1>16, <2>2 DEF CrashServer
<1>17. ASSUME NEW s \in Servers, AbortStart(s) PROVE TypeOK'
  BY <1>17 DEF AbortStart, ReloadThrows
<1>18. ASSUME NEW a \in Servers \cup Threads, CheckTriple(a) PROVE TypeOK'
  <2>1. overtaken' \subseteq Threads
    BY <1>18 DEF CheckTriple, Handling
  <2>2. UNCHANGED <<m_static_rtree, seen, queries>>
    BY <1>18 DEF CheckTriple
  <2>3. \E to \in {"rl_remove", Returned(a)} : pc' = [pc EXCEPT ![a] = to]
    BY <1>18 DEF CheckTriple
  <2> QED
    BY <1>18, <2>1, <2>2, <2>3 DEF CheckTriple, Returned
<1>19. ASSUME NEW a \in Servers \cup Threads, RemovePrevious(a) PROVE TypeOK'
  BY <1>19 DEF RemovePrevious, Removed
<1>20. ASSUME NEW a \in Servers \cup Threads, CopyLayout(a) PROVE TypeOK'
  <2>1. data_timestamp.layout \in Regions
    BY DEF SharedDataTimestamp
  <2>2. CURRENT[Proc(a)] \in SharedDataTimestamp
    OBVIOUS
  <2>3. [CURRENT[Proc(a)] EXCEPT !.layout = data_timestamp.layout] \in SharedDataTimestamp
    BY <2>1, <2>2, TripleFields
  <2> QED
    BY <1>20, <2>3 DEF CopyLayout
<1>21. ASSUME NEW a \in Servers \cup Threads, CopyData(a) PROVE TypeOK'
  <2>1. data_timestamp.data \in Regions
    BY DEF SharedDataTimestamp
  <2>2. CURRENT[Proc(a)] \in SharedDataTimestamp
    OBVIOUS
  <2>3. [CURRENT[Proc(a)] EXCEPT !.data = data_timestamp.data] \in SharedDataTimestamp
    BY <2>1, <2>2, TripleFields
  <2> QED
    BY <1>21, <2>3 DEF CopyData
<1>22. ASSUME NEW a \in Servers \cup Threads, CopyTimestamp(a) PROVE TypeOK'
  <2>1. data_timestamp.timestamp \in Nat
    BY DEF SharedDataTimestamp
  <2>2. CURRENT[Proc(a)] \in SharedDataTimestamp
    OBVIOUS
  <2>3. [CURRENT[Proc(a)] EXCEPT !.timestamp = data_timestamp.timestamp] \in SharedDataTimestamp
    BY <2>1, <2>2, TripleFields
  <2> QED
    BY <1>22, <2>3 DEF CopyTimestamp
<1>23. ASSUME NEW a \in Servers \cup Threads, GetLayoutMemory(a) PROVE TypeOK'
  BY <1>23 DEF GetLayoutMemory, RegionExists, SharedDataTimestamp
<1>24. ASSUME NEW a \in Servers \cup Threads, GetLargeMemory(a) PROVE TypeOK'
  BY <1>24 DEF GetLargeMemory, RegionExists, SharedDataTimestamp
<1>25. ASSUME NEW a \in Servers \cup Threads, LoadFacade(a) PROVE TypeOK'
  BY <1>25 DEF LoadFacade, Returned, ViewOf
<1>26. ASSUME NEW t \in Threads, BeginQuery(t) PROVE TypeOK'
  BY <1>26 DEF BeginQuery
<1>27. ASSUME NEW t \in Threads, LockQuery(t) PROVE TypeOK'
  BY <1>27 DEF LockQuery
<1>28. ASSUME NEW t \in Threads, EnterQuery(t) PROVE TypeOK'
  BY <1>28 DEF EnterQuery
<1>29. ASSUME NEW t \in Threads, ReleaseQuery(t) PROVE TypeOK'
  BY <1>29 DEF ReleaseQuery
<1>30. ASSUME NEW t \in Threads, SearchRTree(t) PROVE TypeOK'
  BY <1>30 DEF SearchRTree, ViewOf, Read, SharedDataTimestamp
<1>31. ASSUME NEW t \in Threads, SearchGraph(t) PROVE TypeOK'
  BY <1>31 DEF SearchGraph, Read
<1>32. ASSUME NEW t \in Threads, HandleThrows(t) PROVE TypeOK'
  BY <1>32 DEF HandleThrows
<1>33. ASSUME NEW t \in Threads, LockAfterQuery(t) PROVE TypeOK'
  BY <1>33 DEF LockAfterQuery
<1>34. ASSUME NEW t \in Threads, LeaveQuery(t) PROVE TypeOK'
  BY <1>34 DEF LeaveQuery
<1>35. ASSUME NEW t \in Threads, AbortQuery(t) PROVE TypeOK'
  BY <1>35 DEF AbortQuery, ReloadThrows
<1>36. CASE UnlockAll
  BY <1>36 DEF UnlockAll
<1>37. CASE UNCHANGED vars
  BY <1>37 DEF vars
<1>38. ASSUME NEW t \in Threads, ReadCount(t) PROVE TypeOK'
  <2>1. \E to \in {"q_increment", "q_decrement"} : pc' = [pc EXCEPT ![t] = to]
    BY <1>38 DEF ReadCount
  <2>2. register' \in [Threads -> Int]
    BY <1>38 DEF ReadCount
  <2> QED
    BY <1>38, <2>1, <2>2 DEF ReadCount
<1>39. ASSUME NEW t \in Threads, IncrementCount(t) PROVE TypeOK'
  BY <1>39 DEF IncrementCount
<1> QED
  BY <1>1, <1>2, <1>3, <1>4, <1>5, <1>6, <1>7, <1>8, <1>9, <1>10, <1>11, <1>12, <1>13, <1>14, <1>15, <1>16, <1>17, <1>18, <1>19, <1>20, <1>21, <1>22, <1>23, <1>24, <1>25, <1>26, <1>27, <1>28, <1>29, <1>30, <1>31, <1>32, <1>33, <1>34, <1>35, <1>36, <1>37, <1>38, <1>39
  DEF Next, StoreStep, ServerStep, ThreadStep, ReloadStep, Rest

-----------------------------------------------------------------------------
\* At most one actor is inside a section of the query mutex, unless the unlock
\* tool was used.
LEMMA Exclusion ==
    ASSUME TypeOK, SemaphoreBalance PROVE QueryExclusion
<1> SUFFICES ASSUME unlocks = 0, NEW a \in QueryHolders, NEW b \in QueryHolders
             PROVE  a = b
  BY DEF QueryExclusion
<1>0. Cardinality(QueryHolders) \in Nat /\ IsFiniteSet(QueryHolders)
  BY HoldersFinite
<1>1. Cardinality(QueryHolders) \in {0, 1} /\ IsFiniteSet(QueryHolders)
  <2>1. query_mutex \in Nat /\ lost \in Nat
    BY DEF TypeOK
  <2>2. query_mutex + Cardinality(QueryHolders) + lost = 1
    BY DEF SemaphoreBalance, TypeOK
  <2> QED
    BY <1>0, <2>1, <2>2
<1>2. CASE Cardinality(QueryHolders) = 0
  BY <1>1, <1>2, FS_EmptySet
<1>3. CASE Cardinality(QueryHolders) = 1
  <2>1. PICK x : QueryHolders = {x}
    BY <1>1, <1>3, FS_Singleton
  <2> QED
    BY <2>1
<1> QED
  BY <1>1, <1>2, <1>3

\* A step inside or outside the sections does not touch the balance.
LEMMA BalanceKept ==
    ASSUME TypeOK, SemaphoreBalance, NEW a \in Actors, NEW from, NEW to,
           Goto(a, from, to), HoldsQuery(a, from) = HoldsQuery(a, to),
           UNCHANGED <<query_mutex, lost, unlocks>>
    PROVE  SemaphoreBalance'
BY HoldersStep DEF Goto, SemaphoreBalance

\* Taking the semaphore moves one unit from its value to the holders.
LEMMA BalanceTaken ==
    ASSUME TypeOK, SemaphoreBalance, NEW a \in Actors, NEW from, NEW to,
           Goto(a, from, to), ~HoldsQuery(a, from), HoldsQuery(a, to),
           query_mutex' = query_mutex - 1, UNCHANGED <<lost, unlocks>>
    PROVE  SemaphoreBalance'
<1>1. Cardinality(QueryHolders') = Cardinality(QueryHolders) + 1
  BY HoldersStep DEF Goto
<1> QED
  BY <1>1, HoldersFinite DEF SemaphoreBalance, TypeOK

\* Releasing it moves one unit back.
LEMMA BalanceReleased ==
    ASSUME TypeOK, SemaphoreBalance, NEW a \in Actors, NEW from, NEW to,
           pc[a] = from, pc' = [pc EXCEPT ![a] = to],
           HoldsQuery(a, from), ~HoldsQuery(a, to),
           query_mutex' = query_mutex + 1, UNCHANGED <<lost, unlocks>>
    PROVE  SemaphoreBalance'
<1>1. Cardinality(QueryHolders') = Cardinality(QueryHolders) - 1
  BY HoldersStep
<1> QED
  BY <1>1, HoldersFinite DEF SemaphoreBalance, TypeOK

\* Every action keeps the balance of the query semaphore.
LEMMA BalanceStep == TypeOK /\ SemaphoreBalance /\ [Next]_vars => SemaphoreBalance'
<1> SUFFICES ASSUME TypeOK, SemaphoreBalance, [Next]_vars PROVE SemaphoreBalance'
  OBVIOUS
<1> USE ConstantsAssumption
<1> USE DEF HoldsQuery, ReloadPC, ThreadQueryPC, StoreQueryPC, Actors, locks, faults
<1>1. ASSUME NEW d \in Stores, StartStore(d) PROVE SemaphoreBalance'
  BY <1>1, BalanceKept DEF StartStore
<1>2. ASSUME NEW d \in Stores, ReleasePending(d) PROVE SemaphoreBalance'
  BY <1>2, BalanceKept DEF ReleasePending
<1>3. ASSUME NEW d \in Stores, ChooseSegment(d) PROVE SemaphoreBalance'
  BY <1>3, BalanceKept DEF ChooseSegment
<1>4. ASSUME NEW d \in Stores, GetLayoutRegion(d) PROVE SemaphoreBalance'
  BY <1>4, BalanceKept DEF GetLayoutRegion
<1>5. ASSUME NEW d \in Stores, GetDataRegion(d) PROVE SemaphoreBalance'
  BY <1>5, BalanceKept DEF GetDataRegion
<1>6. ASSUME NEW d \in Stores, FillData(d) PROVE SemaphoreBalance'
  BY <1>6, BalanceKept DEF FillData
<1>7. ASSUME NEW d \in Stores, SwapLayout(d) PROVE SemaphoreBalance'
  BY <1>7, BalanceKept DEF SwapLayout
<1>8. ASSUME NEW d \in Stores, SwapData(d) PROVE SemaphoreBalance'
  BY <1>8, BalanceKept DEF SwapData
<1>9. ASSUME NEW d \in Stores, SwapTimestamp(d) PROVE SemaphoreBalance'
  BY <1>9, BalanceKept DEF SwapTimestamp
<1>10. ASSUME NEW d \in Stores, DeletePreviousData(d) PROVE SemaphoreBalance'
  BY <1>10, BalanceKept DEF DeletePreviousData
<1>11. ASSUME NEW d \in Stores, DeletePreviousLayout(d) PROVE SemaphoreBalance'
  BY <1>11, BalanceKept DEF DeletePreviousLayout
<1>12. ASSUME NEW d \in Stores, LockForSwap(d) PROVE SemaphoreBalance'
  BY <1>12, BalanceTaken DEF LockForSwap
<1>13. ASSUME NEW d \in Stores, ReleaseAfterSwap(d) PROVE SemaphoreBalance'
  BY <1>13, BalanceReleased DEF ReleaseAfterSwap, Goto
<1>14. ASSUME NEW d \in Stores, CrashStore(d) PROVE SemaphoreBalance'
  <2>1. ~HoldsQuery(d, "s_crashed")
    OBVIOUS
  <2>2. CASE HoldsQuery(d, pc[d])
    <3>1. Cardinality(QueryHolders') = Cardinality(QueryHolders) - 1
      BY <1>14, <2>1, <2>2, HoldersStep DEF CrashStore
    <3>2. QueryHolders \cap {d} = {d}
      BY <2>2 DEF QueryHolders
    <3>3. Cardinality(QueryHolders) \in Nat
      BY HoldersFinite
    <3>4. lost' = lost + 1 /\ UNCHANGED <<query_mutex, unlocks>>
      BY <1>14, <3>2, FS_Singleton DEF CrashStore
    <3> QED
      BY <3>1, <3>3, <3>4 DEF SemaphoreBalance, TypeOK
  <2>3. CASE ~HoldsQuery(d, pc[d])
    <3>1. Cardinality(QueryHolders') = Cardinality(QueryHolders)
      BY <1>14, <2>1, <2>3, HoldersStep DEF CrashStore
    <3>2. QueryHolders \cap {d} = {}
      BY <2>3 DEF QueryHolders
    <3>3. Cardinality(QueryHolders) \in Nat
      BY HoldersFinite
    <3>4. lost' = lost + 0 /\ UNCHANGED <<query_mutex, unlocks>>
      BY <1>14, <3>2, FS_EmptySet DEF CrashStore
    <3> QED
      BY <3>1, <3>3, <3>4 DEF SemaphoreBalance, TypeOK
  <2> QED
    BY <2>2, <2>3
<1>15. ASSUME NEW s \in Servers, StartServer(s) PROVE SemaphoreBalance'
  BY <1>15, BalanceKept DEF StartServer
<1>16. ASSUME NEW s \in Servers, AbortStart(s) PROVE SemaphoreBalance'
  <2>1. Cardinality(QueryHolders') = Cardinality(QueryHolders)
    BY <1>16, HoldersStep DEF AbortStart
  <2> QED
    BY <1>16, <2>1 DEF AbortStart, SemaphoreBalance
<1>17. ASSUME NEW s \in Servers, CrashServer(s) PROVE SemaphoreBalance'
  <2> DEFINE mine == {t \in Threads : Home[t] = s}
  <2> DEFINE rest == QueryHolders \ mine
  <2> DEFINE dead == QueryHolders \cap mine
  <2>1. QueryHolders' = rest
    <3>1. \A b \in Threads \cup Stores : pc'[b] = IF b \in mine THEN "idle" ELSE pc[b]
      BY <1>17 DEF CrashServer
    <3> QED
      BY <3>1 DEF QueryHolders
  <2>2. IsFiniteSet(rest) /\ IsFiniteSet(dead)
    BY HoldersFinite, FS_Subset
  <2>3. rest \cup dead = QueryHolders /\ rest \cap dead = {}
    OBVIOUS
  <2>4. Cardinality(QueryHolders) = Cardinality(rest) + Cardinality(dead) - Cardinality(rest \cap dead)
    BY <2>2, <2>3, FS_Union
  <2>5. Cardinality(rest) \in Nat /\ Cardinality(dead) \in Nat /\ Cardinality(rest \cap dead) = 0
    BY <2>2, <2>3, FS_CardinalityType, FS_EmptySet
  <2>6. lost' = lost + Cardinality(dead) /\ UNCHANGED <<query_mutex, unlocks>>
    BY <1>17 DEF CrashServer
  <2>7. Cardinality(QueryHolders') = Cardinality(rest)
    BY <2>1
  <2> HIDE DEF mine, rest, dead
  <2> QED
    BY <2>4, <2>5, <2>6, <2>7 DEF SemaphoreBalance, TypeOK
<1>18. ASSUME NEW a \in Servers \cup Threads, CheckTriple(a) PROVE SemaphoreBalance'
  BY <1>18, BalanceKept DEF CheckTriple, Returned
<1>19. ASSUME NEW a \in Servers \cup Threads, RemovePrevious(a) PROVE SemaphoreBalance'
  BY <1>19, BalanceKept DEF RemovePrevious
<1>20. ASSUME NEW a \in Servers \cup Threads, CopyLayout(a) PROVE SemaphoreBalance'
  BY <1>20, BalanceKept DEF CopyLayout
<1>21. ASSUME NEW a \in Servers \cup Threads, CopyData(a) PROVE SemaphoreBalance'
  BY <1>21, BalanceKept DEF CopyData
<1>22. ASSUME NEW a \in Servers \cup Threads, CopyTimestamp(a) PROVE SemaphoreBalance'
  BY <1>22, BalanceKept DEF CopyTimestamp
<1>23. ASSUME NEW a \in Servers \cup Threads, GetLayoutMemory(a) PROVE SemaphoreBalance'
  BY <1>23, BalanceKept DEF GetLayoutMemory
<1>24. ASSUME NEW a \in Servers \cup Threads, GetLargeMemory(a) PROVE SemaphoreBalance'
  BY <1>24, BalanceKept DEF GetLargeMemory
<1>25. ASSUME NEW a \in Servers \cup Threads, LoadFacade(a) PROVE SemaphoreBalance'
  BY <1>25, BalanceKept DEF LoadFacade, Returned
<1>26. ASSUME NEW t \in Threads, AbortQuery(t) PROVE SemaphoreBalance'
  BY <1>26, BalanceReleased DEF AbortQuery, ReloadThrows
<1>27. ASSUME NEW t \in Threads, BeginQuery(t) PROVE SemaphoreBalance'
  BY <1>27, BalanceKept DEF BeginQuery
<1>28. ASSUME NEW t \in Threads, EnterQuery(t) PROVE SemaphoreBalance'
  BY <1>28, BalanceKept DEF EnterQuery
<1>29. ASSUME NEW t \in Threads, SearchRTree(t) PROVE SemaphoreBalance'
  BY <1>29, BalanceKept DEF SearchRTree
<1>30. ASSUME NEW t \in Threads, SearchGraph(t) PROVE SemaphoreBalance'
  BY <1>30, BalanceKept DEF SearchGraph
<1>31. ASSUME NEW t \in Threads, LockQuery(t) PROVE SemaphoreBalance'
  BY <1>31, BalanceTaken DEF LockQuery
<1>32. ASSUME NEW t \in Threads, LockAfterQuery(t) PROVE SemaphoreBalance'
  BY <1>32, BalanceTaken DEF LockAfterQuery
<1>33. ASSUME NEW t \in Threads, ReleaseQuery(t) PROVE SemaphoreBalance'
  BY <1>33, BalanceReleased DEF ReleaseQuery, Goto
<1>34. ASSUME NEW t \in Threads, LeaveQuery(t) PROVE SemaphoreBalance'
  BY <1>34, BalanceReleased DEF LeaveQuery, Goto
<1>35. ASSUME NEW t \in Threads, HandleThrows(t) PROVE SemaphoreBalance'
  <2>1. Cardinality(QueryHolders') = Cardinality(QueryHolders)
    BY <1>35, HoldersStep DEF HandleThrows
  <2> QED
    BY <1>35, <2>1 DEF HandleThrows, SemaphoreBalance
<1>36. CASE UnlockAll
  <2>1. Cardinality(QueryHolders') = Cardinality(QueryHolders)
    BY <1>36 DEF UnlockAll, QueryHolders
  <2> QED
    BY <1>36, <2>1, HoldersFinite DEF UnlockAll, SemaphoreBalance, TypeOK
<1>37. CASE UNCHANGED vars
  <2>1. Cardinality(QueryHolders') = Cardinality(QueryHolders)
    BY <1>37 DEF vars, QueryHolders
  <2> QED
    BY <1>37, <2>1 DEF vars, SemaphoreBalance
<1>38. ASSUME NEW t \in Threads, ReadCount(t) PROVE SemaphoreBalance'
  BY <1>38, BalanceKept DEF ReadCount
<1>39. ASSUME NEW t \in Threads, IncrementCount(t) PROVE SemaphoreBalance'
  BY <1>39, BalanceKept DEF IncrementCount
<1> QED
  BY <1>1, <1>2, <1>3, <1>4, <1>5, <1>6, <1>7, <1>8, <1>9, <1>10, <1>11, <1>12,
     <1>13, <1>14, <1>15, <1>16, <1>17, <1>18, <1>19, <1>20, <1>21, <1>22,
     <1>23, <1>24, <1>25, <1>26, <1>27, <1>28, <1>29, <1>30, <1>31, <1>32,
     <1>33, <1>34, <1>35, <1>36, <1>37, <1>38, <1>39
  DEF Next, StoreStep, ServerStep, ThreadStep, ReloadStep, Rest

-----------------------------------------------------------------------------
\* A step that does not cross the counted part of RunQuery leaves QueryCount alone.
LEMMA CountKept ==
    ASSUME TypeOK, QueryCount, NEW a \in Actors, NEW from, NEW to, Goto(a, from, to),
           a \notin Threads \/ (from \in CountedPC) = (to \in CountedPC),
           UNCHANGED <<counts, unlocks>>
    PROVE  QueryCount'
<1>1. \A s \in Servers : Cardinality(Running(s)') = Cardinality(Running(s))
  BY RunningStep DEF Goto
<1> QED
  BY <1>1 DEF QueryCount, counts

\* Every action keeps the meaning of number_of_queries.
LEMMA CountStep == TypeOK /\ QueryCount /\ RegisterFresh /\ [Next]_vars => QueryCount'
<1> SUFFICES ASSUME TypeOK, QueryCount, RegisterFresh, [Next]_vars PROVE QueryCount'
  OBVIOUS
<1> USE ConstantsAssumption
<1> USE DEF CountedPC, ReloadPC, Actors, faults
<1>1. ASSUME NEW d \in Stores, StartStore(d) PROVE QueryCount'
  BY <1>1, CountKept DEF StartStore
<1>2. ASSUME NEW d \in Stores, ReleasePending(d) PROVE QueryCount'
  BY <1>2, CountKept DEF ReleasePending
<1>3. ASSUME NEW d \in Stores, ChooseSegment(d) PROVE QueryCount'
  BY <1>3, CountKept DEF ChooseSegment
<1>4. ASSUME NEW d \in Stores, GetLayoutRegion(d) PROVE QueryCount'
  BY <1>4, CountKept DEF GetLayoutRegion
<1>5. ASSUME NEW d \in Stores, GetDataRegion(d) PROVE QueryCount'
  BY <1>5, CountKept DEF GetDataRegion
<1>6. ASSUME NEW d \in Stores, FillData(d) PROVE QueryCount'
  BY <1>6, CountKept DEF FillData
<1>7. ASSUME NEW d \in Stores, SwapLayout(d) PROVE QueryCount'
  BY <1>7, CountKept DEF SwapLayout
<1>8. ASSUME NEW d \in Stores, SwapData(d) PROVE QueryCount'
  BY <1>8, CountKept DEF SwapData
<1>9. ASSUME NEW d \in Stores, SwapTimestamp(d) PROVE QueryCount'
  BY <1>9, CountKept DEF SwapTimestamp
<1>10. ASSUME NEW d \in Stores, DeletePreviousData(d) PROVE QueryCount'
  BY <1>10, CountKept DEF DeletePreviousData
<1>11. ASSUME NEW d \in Stores, DeletePreviousLayout(d) PROVE QueryCount'
  BY <1>11, CountKept DEF DeletePreviousLayout
<1>12. ASSUME NEW d \in Stores, LockForSwap(d) PROVE QueryCount'
  BY <1>12, CountKept DEF LockForSwap
<1>13. ASSUME NEW d \in Stores, ReleaseAfterSwap(d) PROVE QueryCount'
  BY <1>13, CountKept DEF ReleaseAfterSwap
<1>14. ASSUME NEW d \in Stores, CrashStore(d) PROVE QueryCount'
  <2>1. \A s \in Servers : Cardinality(Running(s)') = Cardinality(Running(s))
    BY <1>14, RunningStep DEF CrashStore
  <2> QED
    BY <1>14, <2>1 DEF CrashStore, QueryCount, counts
<1>15. ASSUME NEW s \in Servers, StartServer(s) PROVE QueryCount'
  BY <1>15, CountKept DEF StartServer
<1>16. ASSUME NEW s \in Servers, AbortStart(s) PROVE QueryCount'
  <2>1. \A p \in Servers : Cardinality(Running(p)') = Cardinality(Running(p))
    BY <1>16, RunningStep DEF AbortStart
  <2> QED
    BY <1>16, <2>1 DEF AbortStart, QueryCount, counts
<1>17. ASSUME NEW s \in Servers, CrashServer(s) PROVE QueryCount'
  <2>1. \A t \in Threads : pc'[t] = IF Home[t] = s THEN "idle" ELSE pc[t]
    BY <1>17 DEF CrashServer
  <2>2. Running(s)' = {}
    BY <2>1 DEF Running
  <2>3. \A p \in Servers \ {s} : Running(p)' = Running(p)
    BY <2>1 DEF Running
  <2>4. Cardinality(Running(s)') = 0
    BY <2>2, FS_EmptySet
  <2>5. unlocks = 0 => \A p \in Servers :
          number_of_queries'[p] = Cardinality(Running(p)') + leaked'[p]
    BY <1>17, <2>3, <2>4 DEF CrashServer, QueryCount, TypeOK
  <2> QED
    BY <1>17, <2>5 DEF CrashServer, QueryCount, TypeOK
<1>18. ASSUME NEW a \in Servers \cup Threads, CheckTriple(a) PROVE QueryCount'
  BY <1>18, CountKept DEF CheckTriple, Returned
<1>19. ASSUME NEW a \in Servers \cup Threads, RemovePrevious(a) PROVE QueryCount'
  BY <1>19, CountKept DEF RemovePrevious
<1>20. ASSUME NEW a \in Servers \cup Threads, CopyLayout(a) PROVE QueryCount'
  BY <1>20, CountKept DEF CopyLayout
<1>21. ASSUME NEW a \in Servers \cup Threads, CopyData(a) PROVE QueryCount'
  BY <1>21, CountKept DEF CopyData
<1>22. ASSUME NEW a \in Servers \cup Threads, CopyTimestamp(a) PROVE QueryCount'
  BY <1>22, CountKept DEF CopyTimestamp
<1>23. ASSUME NEW a \in Servers \cup Threads, GetLayoutMemory(a) PROVE QueryCount'
  BY <1>23, CountKept DEF GetLayoutMemory
<1>24. ASSUME NEW a \in Servers \cup Threads, GetLargeMemory(a) PROVE QueryCount'
  BY <1>24, CountKept DEF GetLargeMemory
<1>25. ASSUME NEW a \in Servers \cup Threads, LoadFacade(a) PROVE QueryCount'
  BY <1>25, CountKept DEF LoadFacade, Returned
<1>26. ASSUME NEW t \in Threads, BeginQuery(t) PROVE QueryCount'
  BY <1>26, CountKept DEF BeginQuery
<1>27. ASSUME NEW t \in Threads, LockQuery(t) PROVE QueryCount'
  BY <1>27, CountKept DEF LockQuery
<1>28. ASSUME NEW t \in Threads, ReleaseQuery(t) PROVE QueryCount'
  BY <1>28, CountKept DEF ReleaseQuery
<1>29. ASSUME NEW t \in Threads, SearchRTree(t) PROVE QueryCount'
  BY <1>29, CountKept DEF SearchRTree
<1>30. ASSUME NEW t \in Threads, SearchGraph(t) PROVE QueryCount'
  BY <1>30, CountKept DEF SearchGraph
<1>31. ASSUME NEW t \in Threads, LockAfterQuery(t) PROVE QueryCount'
  BY <1>31, CountKept DEF LockAfterQuery
<1>32. ASSUME NEW t \in Threads, IncrementCount(t) PROVE QueryCount'
  <2>0. /\ pc' = [pc EXCEPT ![t] = "rl_check"]
        /\ pc[t] \notin CountedPC /\ "rl_check" \in CountedPC /\ t \in Actors
    BY <1>32 DEF IncrementCount, Goto
  <2> HIDE DEF CountedPC, ReloadPC, Actors
  <2>1. \A s \in Servers : Cardinality(Running(s)') =
          IF s = Home[t] THEN Cardinality(Running(s)) + 1 ELSE Cardinality(Running(s))
    BY <2>0, RunningStep
  <2>2. \A s \in Servers : Cardinality(Running(s)) \in Nat
    BY HoldersFinite
  <2>3. \A s \in Servers : leaked[s] \in Nat /\ number_of_queries[s] \in Int
    BY DEF TypeOK
  <2>4. unlocks = 0 => \A s \in Servers :
                           /\ number_of_queries'[s] = IF s = Home[t] THEN number_of_queries[s] + 1 ELSE number_of_queries[s]
                           /\ leaked'[s] = leaked[s]
    BY <1>32 DEF IncrementCount, Goto, TypeOK, RegisterFresh
  <2>5. \A d \in Stores : number_of_queries'[d] = number_of_queries[d]
    BY <1>32 DEF IncrementCount, Goto, TypeOK
  <2>6. UNCHANGED unlocks
    BY <1>32 DEF IncrementCount
  <2> QED
    BY <2>6, <2>1, <2>2, <2>3, <2>4, <2>5 DEF QueryCount
<1>33. ASSUME NEW t \in Threads, LeaveQuery(t) PROVE QueryCount'
  <2>0. /\ pc' = [pc EXCEPT ![t] = "idle"]
        /\ pc[t] \in CountedPC /\ "idle" \notin CountedPC /\ t \in Actors
    BY <1>33 DEF LeaveQuery, Goto
  <2> HIDE DEF CountedPC, ReloadPC, Actors
  <2>1. \A s \in Servers : Cardinality(Running(s)') =
          IF s = Home[t] THEN Cardinality(Running(s)) - 1 ELSE Cardinality(Running(s))
    BY <2>0, RunningStep
  <2>2. \A s \in Servers : Cardinality(Running(s)) \in Nat
    BY HoldersFinite
  <2>3. \A s \in Servers : leaked[s] \in Nat /\ number_of_queries[s] \in Int
    BY DEF TypeOK
  <2>4. unlocks = 0 => \A s \in Servers :
                           /\ number_of_queries'[s] = IF s = Home[t] THEN number_of_queries[s] - 1 ELSE number_of_queries[s]
                           /\ leaked'[s] = leaked[s]
    BY <1>33 DEF LeaveQuery, Goto, TypeOK, RegisterFresh
  <2>5. \A d \in Stores : number_of_queries'[d] = number_of_queries[d]
    BY <1>33 DEF LeaveQuery, Goto, TypeOK
  <2>6. UNCHANGED unlocks
    BY <1>33 DEF LeaveQuery
  <2> QED
    BY <2>6, <2>1, <2>2, <2>3, <2>4, <2>5 DEF QueryCount
<1>34. ASSUME NEW t \in Threads, AbortQuery(t) PROVE QueryCount'
  <2>0. /\ pc' = [pc EXCEPT ![t] = "idle"]
        /\ pc[t] \in CountedPC /\ "idle" \notin CountedPC /\ t \in Actors
    BY <1>34 DEF AbortQuery, ReloadThrows
  <2> HIDE DEF CountedPC, ReloadPC, Actors
  <2>1. \A s \in Servers : Cardinality(Running(s)') =
          IF s = Home[t] THEN Cardinality(Running(s)) - 1 ELSE Cardinality(Running(s))
    BY <2>0, RunningStep
  <2>2. \A s \in Servers : Cardinality(Running(s)) \in Nat
    BY HoldersFinite
  <2>3. \A s \in Servers : leaked[s] \in Nat /\ number_of_queries[s] \in Int
    BY DEF TypeOK
  <2>4. \A s \in Servers : /\ number_of_queries'[s] = number_of_queries[s]
                           /\ leaked'[s] = IF s = Home[t] THEN leaked[s] + 1 ELSE leaked[s]
    BY <1>34 DEF AbortQuery, ReloadThrows, TypeOK
  <2>5. \A d \in Stores : number_of_queries'[d] = number_of_queries[d]
    BY <1>34 DEF AbortQuery, ReloadThrows, TypeOK
  <2>6. UNCHANGED unlocks
    BY <1>34 DEF AbortQuery
  <2> QED
    BY <2>6, <2>1, <2>2, <2>3, <2>4, <2>5 DEF QueryCount
<1>35. ASSUME NEW t \in Threads, HandleThrows(t) PROVE QueryCount'
  <2>0. /\ pc' = [pc EXCEPT ![t] = "idle"]
        /\ pc[t] \in CountedPC /\ "idle" \notin CountedPC /\ t \in Actors
    BY <1>35 DEF HandleThrows
  <2> HIDE DEF CountedPC, ReloadPC, Actors
  <2>1. \A s \in Servers : Cardinality(Running(s)') =
          IF s = Home[t] THEN Cardinality(Running(s)) - 1 ELSE Cardinality(Running(s))
    BY <2>0, RunningStep
  <2>2. \A s \in Servers : Cardinality(Running(s)) \in Nat
    BY HoldersFinite
  <2>3. \A s \in Servers : leaked[s] \in Nat /\ number_of_queries[s] \in Int
    BY DEF TypeOK
  <2>4. \A s \in Servers : /\ number_of_queries'[s] = number_of_queries[s]
                           /\ leaked'[s] = IF s = Home[t] THEN leaked[s] + 1 ELSE leaked[s]
    BY <1>35 DEF HandleThrows, TypeOK
  <2>5. \A d \in Stores : number_of_queries'[d] = number_of_queries[d]
    BY <1>35 DEF HandleThrows, TypeOK
  <2>6. UNCHANGED unlocks
    BY <1>35 DEF HandleThrows
  <2> QED
    BY <2>6, <2>1, <2>2, <2>3, <2>4, <2>5 DEF QueryCount
<1>36. CASE UnlockAll
  BY <1>36 DEF UnlockAll, QueryCount, counts, TypeOK
<1>37. CASE UNCHANGED vars
  BY <1>37 DEF vars, QueryCount, Running, counts
<1>38. ASSUME NEW t \in Threads, ReadCount(t) PROVE QueryCount'
  <2>1. \A s \in Servers : Cardinality(Running(s)') = Cardinality(Running(s))
    BY <1>38, RunningStep DEF ReadCount, Goto
  <2> QED
    BY <1>38, <2>1 DEF ReadCount, QueryCount
<1>39. ASSUME NEW t \in Threads, EnterQuery(t) PROVE QueryCount'
  BY <1>39, CountKept DEF EnterQuery
<1> QED
  BY <1>1, <1>2, <1>3, <1>4, <1>5, <1>6, <1>7, <1>8, <1>9, <1>10, <1>11, <1>12,
     <1>13, <1>14, <1>15, <1>16, <1>17, <1>18, <1>19, <1>20, <1>21, <1>22,
     <1>23, <1>24, <1>25, <1>26, <1>27, <1>28, <1>29, <1>30, <1>31, <1>32,
     <1>33, <1>34, <1>35, <1>36, <1>37, <1>38, <1>39
  DEF Next, StoreStep, ServerStep, ThreadStep, ReloadStep, Rest

-----------------------------------------------------------------------------
\* What steps of a datastore leave alone: only a store inside its swap changes
\* CURRENT_REGIONS.
LEMMA StoreFrame ==
    ASSUME TypeOK, NEW d \in Stores, StoreStep(d) \/ CrashStore(d)
    PROVE  /\ \A a \in Servers \cup Threads : pc'[a] = pc[a]
           /\ UNCHANGED <<CURRENT, unlocks>>
           /\ d \in QueryHolders \/ UNCHANGED data_timestamp
<1> USE DEF StoreStep, StartStore, ReleasePending, ChooseSegment, GetLayoutRegion,
    GetDataRegion, FillData, LockForSwap, SwapLayout, SwapData, SwapTimestamp,
    DeletePreviousData, DeletePreviousLayout, ReleaseAfterSwap, CrashStore, Goto
<1>1. \A a \in Servers \cup Threads : pc'[a] = pc[a]
  BY ConstantsAssumption DEF TypeOK, Actors
<1>2. UNCHANGED <<CURRENT, unlocks>>
  BY DEF facade, faults
<1>3. d \in QueryHolders \/ UNCHANGED data_timestamp
  BY DEF QueryHolders, HoldsQuery, StoreQueryPC
<1> QED
  BY <1>1, <1>2, <1>3

\* What a server's main thread leaves alone while it starts.
LEMMA ServerFrame ==
    ASSUME TypeOK, NEW s \in Servers, StartServer(s) \/ ServerStep(s)
    PROVE  /\ pc[s] # "up"
           /\ \A a \in (Servers \cup Threads) \ {s} : pc'[a] = pc[a]
           /\ \A p \in Servers \ {s} : CURRENT'[p] = CURRENT[p]
           /\ UNCHANGED <<data_timestamp, unlocks>>
<1> USE DEF StartServer, ServerStep, ReloadStep, CheckTriple, RemovePrevious, CopyLayout,
    CopyData, CopyTimestamp, GetLayoutMemory, GetLargeMemory, LoadFacade, AbortStart,
    ReloadThrows, Goto, Proc
<1>1. pc[s] # "up"
  OBVIOUS
<1>2. \A a \in (Servers \cup Threads) \ {s} : pc'[a] = pc[a]
  BY DEF TypeOK, Actors
<1>3. \A p \in Servers \ {s} : CURRENT'[p] = CURRENT[p]
  BY DEF TypeOK, facade
<1>4. UNCHANGED <<data_timestamp, unlocks>>
  BY DEF faults
<1> QED
  BY <1>1, <1>2, <1>3, <1>4

\* What a worker leaves alone: it moves on only in a server that is up.
LEMMA ThreadFrame ==
    ASSUME TypeOK, DownIsIdle, NEW t \in Threads,
           BeginQuery(t) \/ ThreadStep(t) \/ HandleThrows(t)
    PROVE  /\ pc[Home[t]] = "up"
           /\ \A a \in (Servers \cup Threads) \ {t} : pc'[a] = pc[a]
           /\ UNCHANGED <<data_timestamp, unlocks>>
<1>1. BeginQuery(t) \/ pc[t] # "idle"
  BY DEF ThreadStep, ReloadStep, CheckTriple, RemovePrevious, CopyLayout, CopyData,
         CopyTimestamp, GetLayoutMemory, GetLargeMemory, LoadFacade, AbortQuery,
         ReloadThrows, LockQuery, EnterQuery, ReadCount,
         IncrementCount, ReleaseQuery, SearchRTree, SearchGraph,
         LockAfterQuery, LeaveQuery, HandleThrows, Goto
<1>2. pc[Home[t]] = "up"
  BY <1>1 DEF BeginQuery, DownIsIdle
<1>3. \A a \in (Servers \cup Threads) \ {t} : pc'[a] = pc[a]
  BY DEF TypeOK, BeginQuery, ThreadStep, ReloadStep, CheckTriple, RemovePrevious,
         CopyLayout, CopyData, CopyTimestamp, GetLayoutMemory, GetLargeMemory,
         LoadFacade, AbortQuery, LockQuery, EnterQuery, ReadCount,
         IncrementCount, ReleaseQuery, SearchRTree,
         SearchGraph, LockAfterQuery, LeaveQuery, HandleThrows, Goto, Actors
<1>4. UNCHANGED <<data_timestamp, unlocks>>
  BY DEF BeginQuery, ThreadStep, ReloadStep, CheckTriple, RemovePrevious,
         CopyLayout, CopyData, CopyTimestamp, GetLayoutMemory, GetLargeMemory,
         LoadFacade, AbortQuery, LockQuery, EnterQuery, ReadCount,
         IncrementCount, ReleaseQuery, SearchRTree,
         SearchGraph, LockAfterQuery, LeaveQuery, HandleThrows, faults
<1> QED
  BY <1>2, <1>3, <1>4

\* A server that is not up never gets a busy worker.
LEMMA DownStep == TypeOK /\ DownIsIdle /\ [Next]_vars => DownIsIdle'
<1> SUFFICES ASSUME TypeOK, DownIsIdle, [Next]_vars PROVE DownIsIdle'
  OBVIOUS
<1> USE ConstantsAssumption
<1>1. ASSUME NEW d \in Stores, StoreStep(d) \/ CrashStore(d) PROVE DownIsIdle'
  BY <1>1, StoreFrame DEF DownIsIdle
<1>2. ASSUME NEW s \in Servers, StartServer(s) \/ ServerStep(s) PROVE DownIsIdle'
  BY <1>2, ServerFrame DEF DownIsIdle
<1>3. ASSUME NEW s \in Servers, CrashServer(s) PROVE DownIsIdle'
  BY <1>3 DEF DownIsIdle, CrashServer, Actors, TypeOK
<1>4. ASSUME NEW t \in Threads, BeginQuery(t) \/ ThreadStep(t) \/ HandleThrows(t)
      PROVE  DownIsIdle'
  BY <1>4, ThreadFrame DEF DownIsIdle
<1>5. CASE UnlockAll \/ UNCHANGED vars
  BY <1>5 DEF UnlockAll, vars, DownIsIdle
<1> QED
  BY <1>1, <1>2, <1>3, <1>4, <1>5 DEF Next, Rest

\* No step tears the copy a worker holds of the triple: a store that changes
\* CURRENT_REGIONS and a worker that has copied part of it would both be inside
\* a section of the query mutex.
LEMMA TripleStep ==
    TypeOK /\ SemaphoreBalance /\ DownIsIdle /\ TripleCopied /\ [Next]_vars => TripleCopied'
<1> SUFFICES ASSUME TypeOK, SemaphoreBalance, DownIsIdle, TripleCopied, [Next]_vars,
                    unlocks' = 0
             PROVE  TripleCopied'
  BY DEF TripleCopied
<1> DEFINE Copying == {"rl_data", "rl_timestamp", "rl_getLayout", "rl_getData",
                       "rl_load", "q_release"}
<1> USE ConstantsAssumption
<1>1. \A t \in Threads : pc[t] \in Copying => t \in QueryHolders
  BY DEF QueryHolders, HoldsQuery, ThreadQueryPC, ReloadPC
<1>2. unlocks = 0 => \A a, b \in QueryHolders : a = b
  BY Exclusion DEF QueryExclusion
<1>3. ASSUME NEW d \in Stores, StoreStep(d) \/ CrashStore(d) PROVE TripleCopied'
  <2>1. unlocks = 0 /\ UNCHANGED CURRENT /\ \A t \in Threads : pc'[t] = pc[t]
    BY <1>3, StoreFrame
  <2>2. CASE d \in QueryHolders
    <3>1. \A t \in Threads : pc[t] \notin Copying
      BY <1>1, <1>2, <2>1, <2>2
    <3> QED
      BY <2>1, <3>1 DEF TripleCopied
  <2>3. CASE UNCHANGED data_timestamp
    BY <2>1, <2>3 DEF TripleCopied
  <2> QED
    BY <1>3, <2>2, <2>3, StoreFrame
<1>4. ASSUME NEW s \in Servers, StartServer(s) \/ ServerStep(s) PROVE TripleCopied'
  <2>1. \A t \in Threads : Home[t] = s => pc'[t] = "idle"
    BY <1>4, ServerFrame DEF DownIsIdle
  <2> QED
    BY <1>4, <2>1, ServerFrame DEF TripleCopied
<1>5. ASSUME NEW s \in Servers, CrashServer(s) PROVE TripleCopied'
  <2>1. \A t \in Threads : pc'[t] = pc[t] \/ pc'[t] = "idle"
    BY <1>5 DEF CrashServer, Actors
  <2>2. UNCHANGED <<CURRENT, data_timestamp, unlocks>>
    BY <1>5 DEF CrashServer
  <2> QED
    BY <2>1, <2>2 DEF TripleCopied
<1>6. ASSUME NEW t \in Threads, BeginQuery(t) \/ ThreadStep(t) \/ HandleThrows(t)
      PROVE  TripleCopied'
  <2>1. /\ unlocks = 0 /\ UNCHANGED data_timestamp
        /\ \A u \in Threads \ {t} : pc'[u] = pc[u]
    BY <1>6, ThreadFrame
  <2>2. \A u \in Threads \ {t} : pc[u] \in Copying => t \notin QueryHolders
    BY <1>1, <1>2, <2>1
  <2>3. UNCHANGED CURRENT \/ t \in QueryHolders
    BY <1>6 DEF BeginQuery, ThreadStep, ReloadStep, CheckTriple, RemovePrevious,
         CopyLayout, CopyData, CopyTimestamp, GetLayoutMemory, GetLargeMemory,
         LoadFacade, AbortQuery, LockQuery, EnterQuery, ReadCount,
         IncrementCount, ReleaseQuery, SearchRTree,
         SearchGraph, LockAfterQuery, LeaveQuery, HandleThrows, facade, Goto,
         QueryHolders, HoldsQuery, ThreadQueryPC, ReloadPC
  <2>4. \A u \in Threads \ {t} : pc[u] \in Copying => CURRENT'[Home[u]] = CURRENT[Home[u]]
    BY <2>2, <2>3
  <2>5. /\ pc'[t] \in {"rl_data", "rl_timestamp"} =>
             CURRENT'[Home[t]].layout = data_timestamp.layout
        /\ pc'[t] = "rl_timestamp" => CURRENT'[Home[t]].data = data_timestamp.data
        /\ pc'[t] \in {"rl_getLayout", "rl_getData", "rl_load", "q_release"} =>
             CURRENT'[Home[t]] = data_timestamp
    <3> USE DEF TypeOK, Goto, Actors, Proc, facade, Returned, SharedDataTimestamp
    <3>0. t \notin Servers
      OBVIOUS
    <3>1. CASE CheckTriple(t)
      BY <3>0, <3>1 DEF CheckTriple
    <3>2. CASE CopyLayout(t)
      BY <3>0, <3>2 DEF CopyLayout
    <3>3. CASE CopyData(t)
      BY <3>0, <3>3, <2>1 DEF CopyData, TripleCopied
    <3>4. CASE CopyTimestamp(t)
      <4>1. CURRENT'[Home[t]] = [CURRENT[Home[t]] EXCEPT !.timestamp = data_timestamp.timestamp]
        BY <3>0, <3>4 DEF CopyTimestamp
      <4>2. /\ CURRENT[Home[t]].layout = data_timestamp.layout
            /\ CURRENT[Home[t]].data = data_timestamp.data
        BY <3>4, <2>1 DEF CopyTimestamp, TripleCopied
      <4>3. CURRENT[Home[t]] \in SharedDataTimestamp /\ data_timestamp \in SharedDataTimestamp
        OBVIOUS
      <4>4. CURRENT'[Home[t]] = data_timestamp
        BY <4>1, <4>2, <4>3, TripleComplete
      <4>5. pc'[t] = "rl_getLayout"
        BY <3>4 DEF CopyTimestamp
      <4> QED
        BY <4>4, <4>5
    <3>5. CASE GetLayoutMemory(t) \/ GetLargeMemory(t) \/ LoadFacade(t)
      BY <3>0, <3>5, <2>1 DEF GetLayoutMemory, GetLargeMemory, LoadFacade, TripleCopied
    <3>6. CASE RemovePrevious(t) \/ AbortQuery(t) \/ BeginQuery(t) \/ LockQuery(t)
               \/ EnterQuery(t) \/ ReadCount(t) \/ IncrementCount(t) \/ ReleaseQuery(t) \/ SearchRTree(t) \/ SearchGraph(t)
               \/ HandleThrows(t) \/ LockAfterQuery(t) \/ LeaveQuery(t)
      <4>1. pc'[t] \notin Copying
        BY <3>6 DEF RemovePrevious, AbortQuery, BeginQuery, LockQuery, EnterQuery,
             ReadCount, IncrementCount, ReleaseQuery, SearchRTree, SearchGraph, HandleThrows, LockAfterQuery,
             LeaveQuery
      <4> QED
        BY <4>1
    <3> QED
      BY <1>6, <3>1, <3>2, <3>3, <3>4, <3>5, <3>6 DEF ThreadStep, ReloadStep
  <2> QED
    BY <2>1, <2>4, <2>5 DEF TripleCopied
<1>7. CASE UnlockAll
  BY <1>7 DEF UnlockAll, TypeOK
<1>8. CASE UNCHANGED vars
  BY <1>8 DEF vars, TripleCopied, facade, faults
<1> QED
  BY <1>3, <1>4, <1>5, <1>6, <1>7, <1>8 DEF Next, Rest

\* No update of number_of_queries comes between the read and the write of another:
\* both workers would be inside a section of the query mutex.
LEMMA RegisterStep ==
    TypeOK /\ SemaphoreBalance /\ DownIsIdle /\ RegisterFresh /\ [Next]_vars => RegisterFresh'
<1> SUFFICES ASSUME TypeOK, SemaphoreBalance, DownIsIdle, RegisterFresh, [Next]_vars,
                    unlocks' = 0
             PROVE  RegisterFresh'
  BY DEF RegisterFresh
<1> DEFINE Changing == {"q_increment", "q_decrement"}
<1> USE ConstantsAssumption
<1>1. \A t \in Threads : pc[t] \in Changing => t \in QueryHolders
  BY DEF QueryHolders, HoldsQuery, ThreadQueryPC
<1>2. unlocks = 0 => \A a, b \in QueryHolders : a = b
  BY Exclusion DEF QueryExclusion
<1>3. ASSUME NEW d \in Stores, StoreStep(d) \/ CrashStore(d) PROVE RegisterFresh'
  <2>1. unlocks = 0 /\ \A t \in Threads : pc'[t] = pc[t]
    BY <1>3, StoreFrame
  <2>2. UNCHANGED counts
    BY <1>3 DEF StoreStep, StartStore, ReleasePending, ChooseSegment, GetLayoutRegion,
        GetDataRegion, FillData, LockForSwap, SwapLayout, SwapData, SwapTimestamp,
        DeletePreviousData, DeletePreviousLayout, ReleaseAfterSwap, CrashStore
  <2> QED
    BY <2>1, <2>2 DEF RegisterFresh, counts
<1>4. ASSUME NEW s \in Servers, StartServer(s) \/ ServerStep(s) PROVE RegisterFresh'
  <2>1. unlocks = 0 /\ \A t \in Threads : pc'[t] = pc[t]
    BY <1>4, ServerFrame
  <2>2. UNCHANGED counts
    BY <1>4 DEF StartServer, ServerStep, ReloadStep, CheckTriple, RemovePrevious,
        CopyLayout, CopyData, CopyTimestamp, GetLayoutMemory, GetLargeMemory, LoadFacade,
        AbortStart
  <2> QED
    BY <2>1, <2>2 DEF RegisterFresh, counts
<1>5. ASSUME NEW s \in Servers, CrashServer(s) PROVE RegisterFresh'
  <2>1. \A t \in Threads : IF Home[t] = s THEN pc'[t] = "idle"
                            ELSE /\ pc'[t] = pc[t]
                                 /\ register'[t] = register[t]
                                 /\ number_of_queries'[Home[t]] = number_of_queries[Home[t]]
    BY <1>5 DEF CrashServer, Actors, TypeOK
  <2>2. UNCHANGED unlocks
    BY <1>5 DEF CrashServer
  <2> QED
    BY <2>1, <2>2 DEF RegisterFresh
<1>6. ASSUME NEW t \in Threads, BeginQuery(t) \/ ThreadStep(t) \/ HandleThrows(t)
      PROVE  RegisterFresh'
  <2>1. unlocks = 0 /\ \A u \in Threads \ {t} : pc'[u] = pc[u]
    BY <1>6, ThreadFrame
  <2>2. CASE IncrementCount(t) \/ LeaveQuery(t)
    <3>1. t \in QueryHolders
      BY <2>2 DEF IncrementCount, LeaveQuery, Goto, QueryHolders, HoldsQuery, ThreadQueryPC
    <3>2. \A u \in Threads \ {t} : pc[u] \notin Changing
      BY <1>1, <1>2, <2>1, <3>1
    <3>3. pc'[t] \notin Changing
      BY <2>2 DEF IncrementCount, LeaveQuery, Goto, TypeOK, Actors
    <3> QED
      BY <2>1, <3>2, <3>3 DEF RegisterFresh
  <2>3. CASE ReadCount(t)
    <3>1. /\ register'[t] = number_of_queries[Home[t]]
          /\ \A u \in Threads \ {t} : register'[u] = register[u]
          /\ UNCHANGED number_of_queries
      BY <2>3 DEF ReadCount, TypeOK
    <3> QED
      BY <2>1, <3>1 DEF RegisterFresh
  <2>4. CASE ~IncrementCount(t) /\ ~LeaveQuery(t) /\ ~ReadCount(t)
    <3>1. UNCHANGED <<number_of_queries, register>>
      BY <1>6, <2>4 DEF BeginQuery, ThreadStep, ReloadStep, CheckTriple, RemovePrevious,
         CopyLayout, CopyData, CopyTimestamp, GetLayoutMemory, GetLargeMemory,
         LoadFacade, AbortQuery, LockQuery, EnterQuery, ReleaseQuery, SearchRTree,
         SearchGraph, LockAfterQuery, HandleThrows, counts
    <3>2. pc'[t] \notin Changing
      BY <1>6, <2>4 DEF BeginQuery, ThreadStep, ReloadStep, CheckTriple, RemovePrevious,
         CopyLayout, CopyData, CopyTimestamp, GetLayoutMemory, GetLargeMemory,
         LoadFacade, AbortQuery, LockQuery, EnterQuery, ReleaseQuery, SearchRTree,
         SearchGraph, LockAfterQuery, HandleThrows, Goto, TypeOK, Actors, Returned
    <3> QED
      BY <2>1, <3>1, <3>2 DEF RegisterFresh
  <2> QED
    BY <2>2, <2>3, <2>4
<1>7. CASE UnlockAll
  BY <1>7 DEF UnlockAll, TypeOK
<1>8. CASE UNCHANGED vars
  BY <1>8 DEF vars, RegisterFresh, counts, faults
<1> QED
  BY <1>3, <1>4, <1>5, <1>6, <1>7, <1>8 DEF Next, Rest

-----------------------------------------------------------------------------
\* The invariant holds initially.
LEMMA InitIInv == Init => IInv
<1> SUFFICES ASSUME Init PROVE IInv
  OBVIOUS
<1> USE ConstantsAssumption DEF Init
<1>1. TypeOK
  BY DEF TypeOK, Actors, ServerPC, ThreadPC, StorePC, Segments, Views, Regions,
         SharedDataTimestamp, NoTriple
<1>2. QueryHolders = {}
  BY DEF QueryHolders, HoldsQuery, ThreadQueryPC, ReloadPC, StoreQueryPC, Actors
<1>3. \A s \in Servers : Running(s) = {}
  BY DEF Running, CountedPC, ReloadPC, Actors
<1>4. SemaphoreBalance
  BY <1>2, FS_EmptySet DEF SemaphoreBalance
<1>5. QueryCount
  <2>1. \A s \in Servers : Cardinality(Running(s)) = 0
    BY <1>3, FS_EmptySet
  <2> QED
    BY <2>1 DEF QueryCount
<1>6. DownIsIdle /\ TripleCopied /\ RegisterFresh
  BY DEF DownIsIdle, TripleCopied, RegisterFresh, Actors
<1> QED
  BY <1>1, <1>4, <1>5, <1>6 DEF IInv

\* Every step of every process preserves the invariant.
LEMMA NextIInv == IInv /\ [Next]_vars => IInv'
BY TypeStep, BalanceStep, CountStep, RegisterStep, DownStep, TripleStep DEF IInv

\* IInv holds in every reachable state, whatever processes crash or throw.
LEMMA Invariance == Spec => []IInv
BY InitIInv, NextIInv, PTL DEF Spec

\* For all constants: every reachable state is well typed.
THEOREM TypeCorrect == Spec => []TypeOK
<1>1. IInv => TypeOK
  BY DEF IInv
<1> QED
  BY <1>1, Invariance, PTL

\* For all constants: the sections of the query mutex (reload and decrement in
\* osrm-routed, swap in osrm-datastore) exclude each other, through exceptions and
\* kills, as long as unlock_all_mutexes is not used.
THEOREM SectionsExclude == Spec => []QueryExclusion
<1>1. IInv => QueryExclusion
  BY Exclusion DEF IInv
<1> QED
  BY <1>1, Invariance, PTL

\* For all constants: as long as unlock_all_mutexes is not used, the query mutex keeps
\* the reads and writes of ++ and -- of number_of_queries apart, so it counts running
\* and aborted queries and is never negative (the assertion in RunQuery); a datastore's
\* own is always 0.
THEOREM CountIsExact == Spec => []QueryCount
<1>1. IInv => QueryCount
  BY DEF IInv
<1> QED
  BY <1>1, Invariance, PTL

\* For all constants: a worker never reloads from a torn triple.
THEOREM NeverTorn == Spec => []TripleNotTorn
<1>1. IInv => TripleNotTorn
  BY DEF IInv, TripleCopied, TripleNotTorn
<1> QED
  BY <1>1, Invariance, PTL
=============================================================================
