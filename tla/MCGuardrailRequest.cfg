SPECIFICATION Spec
CONSTANTS
    c1 = c1
    c2 = c2
    Calls = {c1, c2}
    Strong = {s1}
    Ambiguous = {a1}
    Attempts <- MCAttempts
    WaitBudget = 2
    StateCap = 1
INVARIANTS
    TypeOK
    FailClosed
    OneWaitBudget
    ResponseTells
    ModelNotice
    CallStatesBounded
PROPERTY ClaimsMatchRedaction
\* A call ends when it was answered, cancelled or failed for good.
CHECK_DEADLOCK FALSE
