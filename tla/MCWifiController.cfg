CONSTANTS
    r1 = r1
    r2 = r2
    s1 = s1
    s2 = s2
    NoInfo = NoInfo
    Requests <- MCRequests
    Ssids <- MCSsids
\* stop() ends the server for good.
SPECIFICATION FairSpec
INVARIANTS
    ErrorIffPhase
    BusyIsReal
PROPERTIES
    QuietWhenStopped
    BusyEnds
CHECK_DEADLOCK FALSE
