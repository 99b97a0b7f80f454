SPECIFICATION Spec
CONSTANTS
    Jobs = {j1, j2}
    Owners = {o1, o2, o3}
    Replicas = 2
    MaxActions = 2
    Cooldown = 2
    BreakerKeys = 2
    Faults = {"timeout", "append", "crash"}
INVARIANTS TypeOK BreakerHolds BreakerExact CooldownUnlessHidden
SYMMETRY Symmetry
