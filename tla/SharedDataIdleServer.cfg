SPECIFICATION Spec
CONSTANTS
    s1 = s1
    s2 = s2
    t1 = t1
    t2 = t2
    t3 = t3
    Servers = {s1}
    Threads = {t1}
    Home <- HomeSingle
    Stores = {d1, d2, d3}
    NoSegment = NoSegment
    Zeroed = Zeroed
    Garbage = Garbage
    Discipline <- SerialQuiet
    MaxQueries = 3
    MaxStoreCrashes = 0
    MaxServerCrashes = 0
    MaxUnlocks = 0
    MaxThrows = 0
INVARIANT ReleasesPreviousOnly
