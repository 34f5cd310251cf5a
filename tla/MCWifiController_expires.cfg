CONSTANTS
    r1 = r1
    r2 = r2
    s1 = s1
    s2 = s2
    NoInfo = NoInfo
    Requests <- MCRequests
    Ssids <- MCSsids
SPECIFICATION FairSpec
PROPERTY
    CurrentExpires
CHECK_DEADLOCK FALSE
