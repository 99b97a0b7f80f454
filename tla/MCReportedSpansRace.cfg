SPECIFICATION Spec
CONSTANTS
    p1 = p1
    p2 = p2
    r1 = r1
    r2 = r2
    r3 = r3
    Pods = {p1, p2}
    Requests = {r1, r2, r3}
    Host <- MCHost
    Spans = {d1, d2}
    SeenCap = 1
    Faults = {}
INVARIANT FirstReportFires
CHECK_DEADLOCK FALSE
