CONSTANTS
    Domains = 1
    Check = {k1, k2}
    MaxMinute = 1
    MaxFaults = 1
    None = None
SPECIFICATION FairSpec
INVARIANTS TypeOK AnnouncedOnce ActiveIsStored
PROPERTY LastingErrorAnnounced
