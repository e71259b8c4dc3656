CONSTANTS
    None = None
    Error = Error
    Self = "self"
    EventId = {e1, e2}
    Proc = {}
    NameOf <- NoProgram
    Kind = "http"
    Severity = {"p2"}
    Immediate = {}
    Dur = 1
    Interval = 2
    RecDur = 1
    StaleAge = 1
    Retention = 3
    MaxLag = 0
    MaxGap = 1
    Cap = 2
    Faults = FALSE
    Interfaces <- MCInterfaces
    Settings <- MCSettings
SPECIFICATION CycleSpec
PROPERTY DownIsAlerted
