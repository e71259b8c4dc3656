CONSTANTS
    None = None
    p1 = p1
    p2 = p2
    EventId = {e1, e2}
    Proc = {}
    NameOf <- NoProgram
    Kind = "http"
    Severity = {"p2"}
    Immediate = {}
    Dur = 2
    Interval = 3
    RecDur = 2
    StaleAge = 1
    Retention = 7
    MaxLag = 1
    MaxGap = 1
    Cap = 4
    Faults = FALSE
SPECIFICATION FairSpec
INVARIANTS TypeOK RecoveryAfterAlert OneEventPerKey
PROPERTIES AlertAfterContinuousHigh RecoveryAfterContinuousNormal RecoveryIsFinal ImplementsLifecycle HighIsAlerted AlertedIsRecovered
