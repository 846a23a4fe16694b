SPECIFICATION Spec
CONSTANTS
    s1 = s1
    s2 = s2
    t1 = t1
    t2 = t2
    t3 = t3
    Servers = {s1, s2}
    Threads = {t1, t2, t3}
    Home <- HomeOfThree
    Stores = {d1, d2, d3}
    NoSegment = NoSegment
    Zeroed = Zeroed
    Garbage = Garbage
    Discipline <- AllRules
    MaxQueries = 2
    MaxStoreCrashes = 0
    MaxServerCrashes = 0
    MaxUnlocks = 0
    MaxThrows = 0
INVARIANT CurrentAnswer
INVARIANT MixedOnlyIfOvertaken
INVARIANT PublishedDataAvailable
INVARIANT ReleasesPreviousOnly
SYMMETRY Symmetry
