CONSTANTS
    None = None
    Scan = {s1, s2}
    Root = "/"
    EntriesOf <- MCEntries
    SizeOf <- MCSizes
    Skipped = {"proc"}
    Unreadable = {"root"}
    Important <- MCImportant
    MaxDepth = 2
    MaxResults = 3
    MinSize = 5
    MaxFiles = 3
    TopN = 2
    DeepDepth = 0
    DeepItems = 2
SPECIFICATION Spec
INVARIANTS TypeOK ScanIsComplete ResultsAreLeaves ClosedOnce
SYMMETRY ScanSymmetry
CHECK_DEADLOCK FALSE
