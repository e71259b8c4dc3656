CONSTANT None = None
SPECIFICATION FairSpec
INVARIANTS TypeOK OneAlertPerInterval HandedWithoutHTTP ReturnIsClean
PROPERTY StopReturns
