SPECIFICATION FairSpec
CONSTANTS
    LegoSets = {s1, s2}
    Workers = {w1, w2}
    HourlyLimit = 1
    TicksPerHour = 1
    LockTtl = 2
    MaxDispatches = 1
    MaxDuplicates = 1
    MaxFailures = 2
INVARIANTS
    BatchesAreKept
PROPERTIES
    OwedIsRefreshed
