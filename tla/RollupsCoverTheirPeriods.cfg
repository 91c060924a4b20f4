SPECIFICATION RollupSpec
CONSTANTS
    MaxTime = 4
    Lengths = {2, 3}
    Day = 2
    Keep = 1
    Runs = {p1}
    MaxLate = 0
INVARIANTS
    RollupsCoverTheirPeriods
CHECK_DEADLOCK FALSE
