SPECIFICATION FairSpec
CONSTANTS
    d1 = d1
    d2 = d2
    d3 = d3
    Spans = {d1, d2, d3}
    Texts <- MCTexts
    SeenCap = 2
    ReportedCap = 2
    BatchSize = 2
    Faults = {"write", "crash", "open"}
    MaxRegistered = 5
INVARIANTS
    TypeOK
    ForgottenLast
    NothingStranded
PROPERTY Drained
