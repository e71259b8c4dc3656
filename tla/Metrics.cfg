CONSTANTS
    None = None
    Error = Error
    Nothing = Nothing
    Self = "self"
    Modulus = 2
    Preferred = {"sda"}
    Lists <- MCLists
    MaxAmount = 1
    MaxTotal = 2
    MaxResets = 1
    MaxClock = 2
    Configs <- MCConfigs
    BaseReadings <- MCBase
    HTTPReadings <- MCHTTP
SPECIFICATION Spec
INVARIANTS TypeOK FaultIsAlerted HealthyIsQuiet NetworkAddsUp DiskNotTwice
