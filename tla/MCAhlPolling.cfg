CONSTANTS
    p1 = p1
    p2 = p2
    p3 = p3
    g1 = g1
    g2 = g2
    Params <- MCParams
    Groups <- MCGroups
    GroupOf <- MCGroupOf
    Values = {0, 1}
    NotSet = NotSet
    OnChange <- MCOnChange
    Daily <- MCDaily
    Faults = {"flagRead", "flagAnswerLost", "paramRead", "readBack", "writeUnacked"}
    MaxChanges = 3
SPECIFICATION FairSpec
INVARIANTS
    StaleIsPending
    ColdStartComplete
    AnnouncedCurrent
    SettledWhenQuiet
PROPERTY
    Converges
