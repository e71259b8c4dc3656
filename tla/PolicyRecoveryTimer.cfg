CONSTANTS
    None = None
    p1 = p1
    p2 = p2
    EventId = {e1, e2}
    Proc = {p1, p2}
    NameOf <- TwoPrograms
    Kind = "process"
    Severity = {"p2"}
    Immediate = {}
    Dur = 1
    Interval = 2
    RecDur = 1
    StaleAge = 1
    Retention = 3
    MaxLag = 0
    MaxGap = 1
    Cap = 2
    Faults = FALSE
SPECIFICATION Spec
SYMMETRY EventSymmetry
PROPERTIES RecoveryAfterContinuousNormal
