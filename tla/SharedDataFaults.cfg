SPECIFICATION Spec
CONSTANTS
    s1 = s1
    s2 = s2
    t1 = t1
    t2 = t2
    t3 = t3
    Servers = {s1}
    Threads = {t1, t2}
    Home <- HomeShared
    Stores = {d1, d2}
    NoSegment = NoSegment
    Zeroed = Zeroed
    Garbage = Garbage
    Discipline <- NoRules
    MaxQueries = 1
    MaxStoreCrashes = 1
    MaxServerCrashes = 1
    MaxUnlocks = 1
    MaxThrows = 0
INVARIANT TypeOK
INVARIANT QueryExclusion
INVARIANT QueryCount
INVARIANT TripleNotTorn
CHECK_DEADLOCK FALSE
SYMMETRY Symmetry
