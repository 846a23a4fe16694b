SPECIFICATION FairSpec
CONSTANTS
    s1 = s1
    s2 = s2
    t1 = t1
    t2 = t2
    t3 = t3
    Servers = {s1}
    Threads = {t1, t2}
    Home <- HomeShared
    Stores = {d1, d2}
    NoSegment = NoSegment
    Zeroed = Zeroed
    Garbage = Garbage
    Discipline <- NoRules
    MaxQueries = 1
    MaxStoreCrashes = 0
    MaxServerCrashes = 0
    MaxUnlocks = 0
    MaxThrows = 1
PROPERTY QueriesEnd
PROPERTY UpdatesEnd
