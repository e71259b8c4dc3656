CONSTANTS
    c1 = c1  c2 = c2  s = s
    h1 = h1  h2 = h2
    t1 = t1  t2 = t2  t3 = t3
    Client = {c1, c2}
    Server = s
    HostOf <- MCHosts
    TitleOf <- MCTitles
    Period = 2
    Minute = 4
    Day = 3
    PushTimes = {1, 2}
    Delay = 4
    TTL = 10
    MaxRun = 1
    MaxClock = 20
    MaxFaults = 1
    EnableNotification = TRUE
    None = None
SPECIFICATION Spec
INVARIANTS TypeOK EachPushTimeOnce ReportedOnce ReportIsComplete
PROPERTY KeptUntilReported
CHECK_DEADLOCK FALSE
