SPECIFICATION Spec
CONSTANTS
    Tasks = {t1}
    Savers = {s1, s2}
    Runs = {r1, r2}
    States = {"working", "canceled"}
    None = None
    Absent = Absent
    Torn = Torn
    Linger = 1
    Ttl = 3
    MaxTime = 4
    MaxSaves = 2
    MaxFailures = 1
    MaxCrashes = 1
INVARIANTS
    FileIsLastSaved
PROPERTIES
    DeletesOnlyExpired
    ExpiredIsRemoved
CHECK_DEADLOCK FALSE
