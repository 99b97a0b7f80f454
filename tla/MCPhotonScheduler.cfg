SPECIFICATION FairSpec
CONSTANTS
    Month = 3
    Day = 2
    Enough = 3
    Faults = {"touch", "raise", "crash"}
    MaxTime = 9
INVARIANTS
    AlertTrue
PROPERTIES
    RunsAllowed
    AlertComes
    Attempted
