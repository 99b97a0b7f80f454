SPECIFICATION Spec
CONSTANTS
    p1 = p1
    p2 = p2
    r1 = r1
    r2 = r2
    r3 = r3
    Pods = {p1, p2}
    Requests = {r1, r2, r3}
    Host <- MCHost
    Spans = {d1, d2}
    SeenCap = 1
    Faults = {"outage", "cancel", "error", "crash", "expire"}
INVARIANTS
    TypeOK
    OncePerPodMemory
    FirstReportUnlessRaced
PROPERTY AtMostOneReport
SYMMETRY Symmetry
\* Each request runs once: the model ends when all have.
CHECK_DEADLOCK FALSE
