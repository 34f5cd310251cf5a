CONSTANTS
    d1 = d1
    d2 = d2
    Doors <- MCDoors
    MaxOpenings = 3
    MaxLosses = 1
SPECIFICATION Spec
INVARIANTS
    NeverOvercounts
PROPERTY
    NeverFalls
