CONSTANTS
    None = None  Failed = Failed
    Event = {e1, e2}
    Policy = p
    Other = {x}
    ReaderOps = {"All"}
    MaxFaults = 1
SPECIFICATION Spec
SYMMETRY EventSymmetry
INVARIANTS TypeOK NoNilClient OneOpenEvent OpenIsIndexed NoSilentDrop
