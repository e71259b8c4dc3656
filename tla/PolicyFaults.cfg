CONSTANTS
    None = None
    p1 = p1
    p2 = p2
    EventId = {e1, e2}
    Proc = {p1}
    NameOf <- OneProgram
    Kind = "process"
    Severity = {"p2"}
    Immediate = {}
    Dur = 1
    Interval = 2
    RecDur = 1
    StaleAge = 0
    Retention = 2
    MaxLag = 0
    MaxGap = 1
    Cap = 2
    Faults = TRUE
SPECIFICATION Spec
SYMMETRY EventSymmetry
INVARIANTS RecoveryAfterAlert
