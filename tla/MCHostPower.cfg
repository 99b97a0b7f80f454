SPECIFICATION FairSpec
CONSTANTS
    Policies = 2
    Zones = 3
    HwMax <- MCHwMax
    MinFreq <- MCMinFreq
    Links = {"l1", "l2", "l3", "l4"}
    ZoneOf <- MCZoneOf
    NameOf <- MCNameOf
    CapMin <- MCCapMin
    CapMax <- MCCapMax
    Cases <- MCCases
    Default <- MCDefault
    Values = {0, 3}
    Resets <- MCResets
    MaxReads = 2
    Faults = {"write", "clamp", "round", "late", "kill", "boot"}
    Drifting <- MCDrifting
INVARIANTS TypeOK Restraint AppliedHolds QuietRerun FailsForCause
PROPERTY RunEnds
