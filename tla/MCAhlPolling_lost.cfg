CONSTANTS
    p1 = p1
    p2 = p2
    p3 = p3
    g1 = g1
    g2 = g2
    Params <- MCParams
    Groups <- MCGroups
    GroupOf <- MCGroupOf
    Values = {0, 1}
    NotSet = NotSet
    OnChange <- MCOnChange
    Daily <- MCDaily
    Faults = {"flagAnswerLost"}
    MaxChanges = 2
SPECIFICATION Spec
INVARIANT
    NothingMissed
