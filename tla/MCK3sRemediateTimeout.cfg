SPECIFICATION Spec
CONSTANTS
    Jobs = {j1}
    Owners = {o1}
    Replicas = 1
    MaxActions = 2
    Cooldown = 2
    BreakerKeys = 2
    Faults = {"timeout"}
INVARIANT OneActionPerOwner
